---------------------------- MODULE Spec2Model ----------------------------
(***************************************************************************)
(* A model of trading-research/enhanced_researcher.py: the scan, score,    *)
(* enrich, persist pipeline of run_research, the journal persister and the *)
(* file writers.                                                           *)
(*                                                                         *)
(* Conventions.                                                            *)
(*   - Scores are kept in half points (the code only ever adds multiples   *)
(*     of 0.5): a score of 5.5 is 11, min_score 2.0 is 4.                  *)
(*   - vol_surge is kept in tenths (2.5x is 25).                           *)
(*   - Python's None is the integer None below for nullable numbers and    *)
(*     the string "null" for nullable strings.                             *)
(*   - A ticker is its position in the curated list.                       *)
(***************************************************************************)
EXTENDS Integers, Sequences, FiniteSets, TLC

VARIABLES
    pc,          \* where run_research is
    exc,         \* the exception that left run_research ("" while none did)
    universe,    \* the tickers of this run, in order
    batchStart,  \* i of the batch loop (0-based offset of the current batch)
    status,      \* per ticker: waiting, queued, running, finished, consumed
    future,      \* per ticker: what its future resolved to
    results,     \* the accumulating result list
    env,         \* OPENAI_KEY / OPENAI_API_STYLE / config as read after the scan
    cursor,      \* position of the enrichment loop in results[:ai_top_n]
    call,        \* the provider call in progress
    sent,        \* provider requests sent: by the current call and by the run
    output,      \* the assembled report
    reportFile,  \* research.json
    journal,     \* research_journal.json (newest entry first)
    clock,       \* datetime.now() of the journal specification
    lastCall,    \* what is known of the append_research_journal calls so far
    max_entries, \* RESEARCH_JOURNAL_MAX_ENTRIES as int() reads it (30 when unset)
    disk,        \* file contents of the persistence specification
    wr,          \* the write in progress in the persistence specification
    scorerCalls, \* per ticker: how often score_opportunity was called for it
    log,         \* what run_research printed about its end
    probe,       \* one call of a function of the module: its arguments and its result
    cache,       \* universe_cache.json
    refresh      \* what is known of the last universe operation

vars == << pc, exc, universe, batchStart, status, future, results, env,
           cursor, call, sent, output, reportFile, journal, clock, lastCall,
           max_entries, disk, wr, scorerCalls, log, probe, cache, refresh >>

---------------------------------------------------------------------------
(* Bounds of the model *)

\* number of tickers the run scans (config max_tickers of the modelled run)
MaxTickers == 6

(* Program constants *)
None == -999
batch_size == 5
max_workers == 3
MIN_SCORE == 4
MAX_STOCK_PRICE == 50
MIN_BARS == 5
RSI_BARS == 15
DEFAULT_AI_TOP_N == 5
TOP_PICKS == 10
CATEGORY_CAP == 5
JOURNAL_PICKS == 5
DEFAULT_MAX_ENTRIES == 30
CALENDAR_DAYS == 7

---------------------------------------------------------------------------
(* Python helpers *)

Truthy(x) == x # None /\ x # 0

Abs(x) == IF x < 0 THEN -x ELSE x

Min(a, b) == IF a < b THEN a ELSE b

Max(a, b) == IF a > b THEN a ELSE b

\* seq[:n] with Python's meaning of a negative n
SliceTo(seq, n) ==
    LET len == Len(seq)
        hi  == IF n >= 0 THEN Min(n, len) ELSE Max(len + n, 0)
    IN  SubSeq(seq, 1, hi)

Range(seq) == { seq[j] : j \in 1..Len(seq) }

RECURSIVE InsertDesc(_, _)
\* insert r behind every element whose score is >= r.score
InsertDesc(sorted, r) ==
    IF sorted = << >> THEN << r >>
    ELSE IF Head(sorted).score >= r.score
         THEN << Head(sorted) >> \o InsertDesc(Tail(sorted), r)
         ELSE << r >> \o sorted

RECURSIVE SortByScoreDesc(_)
\* list.sort(key=score, reverse=True): stable, equal scores keep their order
SortByScoreDesc(seq) ==
    IF seq = << >> THEN << >>
    ELSE InsertDesc(SortByScoreDesc(SubSeq(seq, 1, Len(seq) - 1)), seq[Len(seq)])

---------------------------------------------------------------------------
(* The market the run sees: what yfinance would deliver for each ticker *)

NoOptions == [present |-> FALSE, iv_avg |-> 0, expected_move_pct |-> 5,
              call_suggestion |-> FALSE, put_suggestion |-> FALSE]

PendingSentiment == [score |-> 0, summary |-> "null", confidence |-> "pending"]

LowSentiment == [score |-> 0, summary |-> "null", confidence |-> "low"]

SkippedSentiment == [score |-> 0, summary |-> "null", confidence |-> "skipped"]

Quote(t) ==
    LET p == IF t <= 6 THEN t ELSE IF t = 7 THEN 5
             ELSE << 8, 8, 6, 8, 6, 6, 8, 6 >>[((t - 8) % 8) + 1] IN
    CASE p = 1 -> [ticker |-> t, bars |-> 22, price |-> 20, vol_surge |-> 25,
                   momentum_5d |-> 12, rsi |-> 28, trend |-> "neutral",
                   earnings_date |-> None,
                   options |-> NoOptions, news |-> 2]
      [] p = 2 -> [ticker |-> t, bars |-> 22, price |-> 30, vol_surge |-> 20,
                   momentum_5d |-> -10, rsi |-> 30, trend |-> "bearish",
                   earnings_date |-> None,
                   options |-> NoOptions, news |-> 1]
      [] p = 3 -> [ticker |-> t, bars |-> 22, price |-> 60, vol_surge |-> 30,
                   momentum_5d |-> 15, rsi |-> 80, trend |-> "bullish",
                   earnings_date |-> 3,
                   options |-> NoOptions, news |-> 3]
      [] p = 4 -> [ticker |-> t, bars |-> 10, price |-> 10, vol_surge |-> 20,
                   momentum_5d |-> 6, rsi |-> None, trend |-> "bullish",
                   earnings_date |-> 3,
                   options |-> NoOptions, news |-> 1]
      [] p = 5 -> [ticker |-> t, bars |-> 22, price |-> 40, vol_surge |-> 10,
                   momentum_5d |-> 1, rsi |-> 50, trend |-> "neutral",
                   earnings_date |-> None,
                   options |-> NoOptions, news |-> 1]
      [] p = 8 -> [ticker |-> t, bars |-> 22, price |-> 12, vol_surge |-> 30,
                   momentum_5d |-> 15, rsi |-> 50, trend |-> "bullish",
                   earnings_date |-> 3,
                   options |-> [present |-> TRUE, iv_avg |-> 85,
                                expected_move_pct |-> 12,
                                call_suggestion |-> TRUE, put_suggestion |-> FALSE],
                   news |-> 0]
      [] OTHER -> [ticker |-> t, bars |-> 22, price |-> 15, vol_surge |-> 16,
                   momentum_5d |-> 5, rsi |-> 50, trend |-> "bullish",
                   earnings_date |-> 1,
                   options |-> [present |-> TRUE, iv_avg |-> 85,
                                expected_move_pct |-> 12,
                                call_suggestion |-> TRUE, put_suggestion |-> FALSE],
                   news |-> 0]

NoData == [ticker |-> None]

---------------------------------------------------------------------------
(* Signal extractor, scorer, trade-idea generator *)

get_stock_data_Unfiltered(t, raised) ==
    IF raised THEN NoData
    ELSE LET q == Quote(t) IN
         IF q.bars < MIN_BARS THEN NoData
         ELSE [ticker |-> q.ticker, price |-> q.price, vol_surge |-> q.vol_surge,
               momentum_5d |-> q.momentum_5d,
               rsi |-> IF q.bars < RSI_BARS \/ ~Truthy(q.rsi) THEN None ELSE q.rsi,
               trend |-> q.trend,
               days_to_earnings |-> IF q.earnings_date = None THEN None
                                    ELSE q.earnings_date - 1,
               earnings_date |-> q.earnings_date, options |-> q.options,
               news |-> q.news, ai_sentiment |-> PendingSentiment]

\* (ed_dt - pd.Timestamp.now()).days: ed_dt is the midnight that opens the
\* earnings day and .days rounds down, so during a day the count is one less
\* than the distance in calendar days
DaysUntil(earnings_date) == IF earnings_date = None THEN None ELSE earnings_date - 1

\* get_stock_data: None on an exception, on a short history, on a price above
\* max_stock_price; otherwise the signal with the pending sentiment
get_stock_data(t, raised) ==
    IF raised THEN NoData
    ELSE LET q == Quote(t) IN
         IF q.bars < MIN_BARS \/ q.price > MAX_STOCK_PRICE THEN NoData
         ELSE [ticker |-> q.ticker, price |-> q.price, vol_surge |-> q.vol_surge,
               momentum_5d |-> q.momentum_5d,
               rsi |-> IF q.bars < RSI_BARS \/ ~Truthy(q.rsi) THEN None ELSE q.rsi,
               trend |-> q.trend, days_to_earnings |-> DaysUntil(q.earnings_date),
               earnings_date |-> q.earnings_date, options |-> q.options,
               news |-> q.news, ai_sentiment |-> PendingSentiment]

EarningsRule(d) ==
    IF d = None THEN [pts |-> 0, why |-> << >>]
    ELSE IF 1 <= d /\ d <= 3 THEN [pts |-> 6, why |-> << "earnings_soon" >>]
    ELSE IF 4 <= d /\ d <= 7 THEN [pts |-> 4, why |-> << "earnings_week" >>]
    ELSE IF d = 0 THEN [pts |-> 2, why |-> << "earnings_today" >>]
    ELSE [pts |-> 0, why |-> << >>]

VolumeRule(v) ==
    IF v >= 20 THEN [pts |-> 4, why |-> << "volume" >>]
    ELSE IF v >= 15 THEN [pts |-> 2, why |-> << "volume" >>]
    ELSE [pts |-> 0, why |-> << >>]

MomentumRule(m) ==
    IF Abs(m) >= 10 THEN [pts |-> 4, why |-> << "big_move" >>]
    ELSE IF Abs(m) >= 5 THEN [pts |-> 2, why |-> << "move" >>]
    ELSE [pts |-> 0, why |-> << >>]

RsiRule(rsi) ==
    IF ~Truthy(rsi) THEN [pts |-> 0, why |-> << >>]
    ELSE IF rsi >= 70 THEN [pts |-> 2, why |-> << "overbought" >>]
    ELSE IF rsi <= 30 THEN [pts |-> 3, why |-> << "oversold" >>]
    ELSE [pts |-> 0, why |-> << >>]

IvRule(options) ==
    IF ~options.present THEN [pts |-> 0, why |-> << >>]
    ELSE IF options.iv_avg >= 80 THEN [pts |-> 2, why |-> << "high_iv" >>]
    ELSE IF options.iv_avg <= 30 /\ options.iv_avg > 0
         THEN [pts |-> 3, why |-> << "low_iv" >>]
    ELSE [pts |-> 0, why |-> << >>]

AffordableRule(options) ==
    IF options.present /\ (options.call_suggestion \/ options.put_suggestion)
    THEN [pts |-> 1, why |-> << "affordable_options" >>]
    ELSE [pts |-> 0, why |-> << >>]

SentimentRule_Signed(ai) ==
    IF Abs(ai.score) >= 3 THEN [pts |-> IF ai.score > 0 THEN 3 ELSE -3, why |-> << "ai_strong" >>]
    ELSE IF Abs(ai.score) >= 2 THEN [pts |-> IF ai.score > 0 THEN 2 ELSE -2, why |-> << "ai_sentiment" >>]
    ELSE [pts |-> 0, why |-> << >>]

SentimentRule_Weak(ai) ==
    IF Abs(ai.score) >= 2 THEN [pts |-> 2, why |-> << "ai_sentiment" >>]
    ELSE [pts |-> 0, why |-> << >>]

\* the sentiment rule; it is written out a second time in the enrichment loop
SentimentRule(ai) ==
    IF Abs(ai.score) >= 3 THEN [pts |-> 3, why |-> << "ai_strong" >>]
    ELSE IF Abs(ai.score) >= 2 THEN [pts |-> 2, why |-> << "ai_sentiment" >>]
    ELSE [pts |-> 0, why |-> << >>]

score_opportunity_Reordered(data) ==
    LET rules == << EarningsRule(data.days_to_earnings), VolumeRule(data.vol_surge),
                    MomentumRule(data.momentum_5d), RsiRule(data.rsi),
                    IvRule(data.options), AffordableRule(data.options),
                    SentimentRule(data.ai_sentiment) >>
    IN  [score   |-> rules[1].pts + rules[2].pts + rules[3].pts + rules[4].pts
                     + rules[5].pts + rules[6].pts + rules[7].pts,
         reasons |-> rules[2].why \o rules[1].why \o rules[3].why \o rules[4].why
                     \o rules[5].why \o rules[6].why \o rules[7].why]

\* abs() of a sentiment score that is no number, [:30] of a null summary
ScorerRaises(data) ==
    \/ data.ai_sentiment.score = None
    \/ Abs(data.ai_sentiment.score) >= 3 /\ data.ai_sentiment.summary = "null"

\* score_opportunity where it returns: the rules in the order of the code
score_opportunity(data) ==
    LET rules == << EarningsRule(data.days_to_earnings), VolumeRule(data.vol_surge),
                    MomentumRule(data.momentum_5d), RsiRule(data.rsi),
                    IvRule(data.options), AffordableRule(data.options),
                    SentimentRule(data.ai_sentiment) >>
    IN  [score   |-> rules[1].pts + rules[2].pts + rules[3].pts + rules[4].pts
                     + rules[5].pts + rules[6].pts + rules[7].pts,
         reasons |-> rules[1].why \o rules[2].why \o rules[3].why \o rules[4].why
                     \o rules[5].why \o rules[6].why \o rules[7].why]

\* the direction vote of generate_trade_idea
Direction(data) ==
    LET bull == (IF data.momentum_5d > 3 THEN 1 ELSE 0)
              + (IF data.trend = "bullish" THEN 1 ELSE 0)
              + (IF data.ai_sentiment.score > 0 THEN 1 ELSE 0)
              + (IF Truthy(data.rsi) /\ data.rsi < 35 THEN 1 ELSE 0)
        bear == (IF data.momentum_5d > 3 THEN 0 ELSE IF data.momentum_5d < -3 THEN 1 ELSE 0)
              + (IF data.trend = "bearish" THEN 1 ELSE 0)
              + (IF data.ai_sentiment.score > 0 THEN 0
                 ELSE IF data.ai_sentiment.score < 0 THEN 1 ELSE 0)
              + (IF Truthy(data.rsi) /\ data.rsi < 35 THEN 0
                 ELSE IF Truthy(data.rsi) /\ data.rsi > 65 THEN 1 ELSE 0)
    IN  IF bull > bear THEN "CALL" ELSE IF bear > bull THEN "PUT" ELSE "STRADDLE"

\* calculate_entry_exit compares rsi with 50 in the CALL and PUT branches: a
\* None rsi is a TypeError there
EntryExitRaises(rsi, direction) == direction \in {"CALL", "PUT"} /\ rsi = None

\* calculate_entry_exit: the direction is the one of the trade idea the data
\* already carries, CALL when it carries none
calculate_entry_exit(data, prior) ==
    LET direction == IF prior = "" THEN "CALL" ELSE prior
        move      == data.options.expected_move_pct
    IN  [direction  |-> direction,
         entry_pct10 |-> CASE direction = "CALL" -> IF data.rsi > 50 THEN -15 ELSE -5
                           [] direction = "PUT"  -> IF data.rsi < 50 THEN 15 ELSE 5
                           [] OTHER              -> 0,
         target_pct10 |-> CASE direction = "CALL" -> move * 7
                            [] direction = "PUT"  -> -(move * 7)
                            [] OTHER              -> move * 10,
         stop_pct10 |-> CASE direction = "CALL" -> -(move * 5)
                          [] direction = "PUT"  -> move * 5
                          [] OTHER              -> -(move * 5)]

\* generate_trade_idea(data, score, reasons); prior is data's current
\* trade_idea direction ("" when it has none yet)
generate_trade_idea(data, reasons, prior) ==
    LET direction == Direction(data) IN
    [direction  |-> direction,
     bias       |-> CASE direction = "CALL" -> "bullish"
                      [] direction = "PUT"  -> "bearish"
                      [] OTHER              -> "neutral",
     reasons    |-> reasons,
     entry_exit |-> calculate_entry_exit(data, prior)]


---------------------------------------------------------------------------
(* run_research: the universe and the concurrent scan *)

\* symbols of the curated list in the model (the source lists 128)
MaxCurated == 8

\* the curated list; the symbols behind it are known to the broker only
ROBINHOOD_POPULAR == [j \in 1..MaxCurated |-> j]

\* no universe cache file
NoCache == [kind |-> "absent", tickers |-> << >>]

RECURSIVE AppendNew(_, _)
\* for t in cached: if t not in tickers: tickers.append(t)
AppendNew(tickers, cached) ==
    IF cached = << >> THEN tickers
    ELSE AppendNew(IF Head(cached) \in Range(tickers) THEN tickers
                   ELSE Append(tickers, Head(cached)),
                   Tail(cached))

\* json.load of a cache file that holds no JSON document is not caught
get_universe_Raises(doc) == doc.kind = "malformed"

get_universe_Uncut(doc, max_tickers) ==
    IF doc.kind = "doc" THEN AppendNew(ROBINHOOD_POPULAR, doc.tickers) ELSE ROBINHOOD_POPULAR

\* get_universe where it returns: a copy of the curated list, the cached
\* symbols not yet in it appended, cut by tickers[:max_tickers]
get_universe(doc, max_tickers) ==
    LET tickers == IF doc.kind = "doc" THEN AppendNew(ROBINHOOD_POPULAR, doc.tickers)
                   ELSE ROBINHOOD_POPULAR
    IN  IF max_tickers = None THEN tickers ELSE SliceTo(tickers, max_tickers)

\* the tickers the run keeps a task record for
Tickers == DOMAIN status

\* universe[i:i+batch_size]
Batch(i) == { universe[j] : j \in (i + 1)..Min(i + batch_size, Len(universe)) }

BatchOf(t) == (t - 1) \div batch_size

Running == { t \in Tickers : status[t] = "running" }

\* a worker thread of the pool is free
WorkerAvailable_Unbounded == TRUE

WorkerAvailable == Cardinality(Running) < max_workers

EnvUnread == [key |-> FALSE, use_ai_sentiment |-> FALSE, ai_top_n |-> 0, style |-> "unread",
              reachable |-> TRUE]

NoResult == [kind |-> "none", obj |-> LowSentiment]

\* last is what the latest POST of the call came to
IdleCall == [purpose |-> "idle", stage |-> "idle", attempt |-> 0, effort |-> "low",
             errors |-> {}, result |-> NoResult, last |-> "none"]

NoSummary == [total_scanned |-> 0, passed_filters |-> 0, opportunities_found |-> 0,
              earnings_upcoming |-> 0, oversold_count |-> 0]

NoOutput == [generated_at |-> 0, summary |-> NoSummary,
             top_picks |-> << >>, earnings_plays |-> << >>,
             momentum_plays |-> << >>, oversold_plays |-> << >>,
             earnings_calendar |-> << >>, all_results |-> << >>]

NoFile == [state |-> "absent", generated_at |-> 0]

InitRun ==
    /\ pc = "scan"
    /\ exc = ""
    /\ universe = get_universe(NoCache, MaxTickers)
    /\ batchStart = 0
    /\ status = [t \in 1..MaxTickers |-> "waiting"]
    /\ future = [t \in 1..MaxTickers |-> NoData]
    /\ results = << >>
    /\ env = EnvUnread
    /\ cursor = 0
    /\ call = IdleCall
    /\ sent = [responses |-> 0, chat |-> 0, run |-> 0, enriched |-> 0, narrated |-> 0]
    /\ output = NoOutput
    /\ reportFile = NoFile
    /\ journal = << >>
    /\ clock = 1
    /\ scorerCalls = [t \in 1..MaxTickers |-> 0]
    /\ log = {}

afterScan == << env, cursor, call, sent, output, reportFile, journal, clock, log >>

otherSpecs == << lastCall, max_entries, disk, wr, probe, cache, refresh >>

\* executor.submit for every ticker of the batch
SubmitBatch ==
    /\ pc = "scan"
    /\ batchStart < Len(universe)
    /\ \A t \in Batch(batchStart) : status[t] = "waiting"
    /\ status' = [t \in Tickers |-> IF t \in Batch(batchStart) THEN "queued" ELSE status[t]]
    /\ UNCHANGED << pc, exc, universe, batchStart, future, results, scorerCalls >>
    /\ UNCHANGED afterScan
    /\ UNCHANGED otherSpecs

\* a free worker takes the oldest queued task
WorkerStart(t) ==
    /\ pc = "scan"
    /\ status[t] = "queued"
    /\ \A u \in Tickers : status[u] = "queued" => t <= u
    /\ WorkerAvailable
    /\ status' = [status EXCEPT ![t] = "running"]
    /\ UNCHANGED << pc, exc, universe, batchStart, future, results, scorerCalls >>
    /\ UNCHANGED afterScan
    /\ UNCHANGED otherSpecs

\* the result entry appended for a signal that meets min_score
Scored(data) ==
    LET s == score_opportunity(data) IN
    [ticker |-> data.ticker, price |-> data.price, vol_surge |-> data.vol_surge,
     momentum_5d |-> data.momentum_5d, rsi |-> data.rsi, trend |-> data.trend,
     days_to_earnings |-> data.days_to_earnings, earnings_date |-> data.earnings_date,
     options |-> data.options, news |-> data.news, ai_sentiment |-> data.ai_sentiment,
     score |-> s.score, reasons |-> s.reasons,
     trade_idea |-> generate_trade_idea(data, s.reasons, "")]

MeetsMinScore(data) == score_opportunity(data).score >= MIN_SCORE

WorkerFinish_Appends(t) ==
    /\ pc = "scan"
    /\ status[t] = "running"
    /\ \E raised \in BOOLEAN :
          LET data == get_stock_data(t, raised) IN
          /\ future' = [future EXCEPT ![t] = data]
          /\ results' = IF data = NoData \/ ~MeetsMinScore(data) \/ data.rsi = None
                        THEN results
                        ELSE Append(results, Scored(data))
    /\ status' = [status EXCEPT ![t] = "finished"]
    /\ UNCHANGED << pc, exc, universe, batchStart, scorerCalls >>
    /\ UNCHANGED afterScan
    /\ UNCHANGED otherSpecs

\* get_stock_data returns in its worker; an exception inside it is caught
\* there, printed, and turned into None
WorkerFinish(t) ==
    /\ pc = "scan"
    /\ status[t] = "running"
    /\ \E raised \in BOOLEAN :
          future' = [future EXCEPT ![t] = get_stock_data(t, raised)]
    /\ status' = [status EXCEPT ![t] = "finished"]
    /\ UNCHANGED << pc, exc, universe, batchStart, results, scorerCalls >>
    /\ UNCHANGED afterScan
    /\ UNCHANGED otherSpecs

\* the except clause around the processing of one future
ProcessingError_Propagates(t) ==
    /\ pc' = "raised"
    /\ exc' = "TypeError"
    /\ UNCHANGED results

\* the ticker is printed with the error and the loop goes on
ProcessingError(t) ==
    /\ UNCHANGED << pc, exc, results >>

\* one iteration of the as_completed loop, on the orchestrating thread
Consume(t) ==
    /\ pc = "scan"
    /\ status[t] = "finished"
    /\ status' = [status EXCEPT ![t] = "consumed"]
    /\ scorerCalls' = IF future[t] = NoData THEN scorerCalls
                      ELSE [scorerCalls EXCEPT ![t] = @ + 1]
    /\ LET data == future[t] IN
       IF data = NoData \/ ~MeetsMinScore(data)
       THEN UNCHANGED << pc, exc, results >>
       ELSE IF EntryExitRaises(data.rsi, "CALL")
            THEN ProcessingError(t)
            ELSE /\ results' = Append(results, Scored(data))
                 /\ UNCHANGED << pc, exc >>
    /\ UNCHANGED << universe, batchStart, future >>
    /\ UNCHANGED afterScan
    /\ UNCHANGED otherSpecs

\* the with block of the batch is left once every future was consumed
BatchDone == \A t \in Batch(batchStart) : status[t] = "consumed"

EndBatch ==
    /\ pc = "scan"
    /\ batchStart < Len(universe)
    /\ BatchDone
    /\ batchStart' = batchStart + batch_size
    /\ future' = [t \in Tickers |-> NoData]
    /\ UNCHANGED << pc, exc, universe, status, results, scorerCalls >>
    /\ UNCHANGED afterScan
    /\ UNCHANGED otherSpecs

NoCall == [at |-> 0, repeat |-> FALSE, monotone |-> TRUE, cut |-> FALSE, tick |-> 0]

Files == {"research.json", "research_journal.json", "research_journal.json.tmp", "config.json"}

NoContent == [doc |-> 0, len |-> 0]

NoWrite == [target |-> "", method |-> "", doc |-> 0, step |-> "idle", before |-> NoContent,
            crashed |-> FALSE]

\* no function call under study
NoProbe == [kind |-> "none", stage |-> "idle", signal |-> NoData,
            scored |-> [score |-> 0, reasons |-> << >>], direction |-> "",
            headlines |-> 0, force |-> FALSE, force_ai_all |-> FALSE,
            answer |-> PendingSentiment]

\* no universe operation yet; max_tickers is the value of the configuration
NoRefresh == [op |-> "none", keys |-> FALSE, reply |-> "none", io |-> "none",
              raised |-> FALSE, max_tickers |-> MaxTickers]

InitOther ==
    /\ lastCall = NoCall
    /\ max_entries = DEFAULT_MAX_ENTRIES
    /\ disk = [f \in Files |-> NoContent]
    /\ wr = NoWrite
    /\ probe = NoProbe
    /\ cache = NoCache
    /\ refresh = NoRefresh


---------------------------------------------------------------------------
(* The AI provider call: get_ai_sentiment and _openai_generate_json run    *)
(* the same chain of requests                                              *)

StrongAnswer == [score |-> 4, summary |-> "text", confidence |-> "high"]

MildAnswer == [score |-> -2, summary |-> "text", confidence |-> "low"]

NullScoreAnswer == [score |-> None, summary |-> "text", confidence |-> "low"]

NullSummaryAnswer == [score |-> 3, summary |-> "null", confidence |-> "low"]

\* the JSON objects _parse_json_obj can hand back
Answers == { StrongAnswer, MildAnswer, NullScoreAnswer, NullSummaryAnswer }

\* what one POST can come to: an exception of requests (network, timeout), a
\* 400 whose text mentions reasoning or not, or names reasoning as unsupported,
\* another error status, a 200 whose text holds no JSON object, the empty
\* object {} or an object with members
Replies ==
    { [kind |-> k, reasoning |-> FALSE, unsupported |-> FALSE, obj |-> LowSentiment] :
          k \in {"exception", "status400", "status500", "garbage", "empty"} }
    \cup { [kind |-> "status400", reasoning |-> TRUE, unsupported |-> u, obj |-> LowSentiment] :
          u \in BOOLEAN }
    \cup { [kind |-> "object", reasoning |-> FALSE, unsupported |-> FALSE, obj |-> a] :
          a \in Answers }

Relax_Cycle(effort, reply) ==
    LET stepped == IF reply.reasoning /\ effort = "low" THEN "medium"
                   ELSE IF reply.reasoning /\ effort = "medium" THEN "low"
                   ELSE effort
    IN  IF reply.unsupported /\ stepped # "absent" THEN "absent" ELSE stepped

\* the retry branch of the /responses loop: the reasoning effort after a 400
Relax(effort, reply) ==
    LET stepped == IF reply.reasoning /\ effort = "low" THEN "medium"
                   ELSE IF reply.reasoning /\ effort = "medium" THEN "absent"
                   ELSE effort
    IN  IF reply.unsupported /\ stepped # "absent" THEN "absent" ELSE stepped

\* for _ in range(3): another iteration is left after this attempt
RetryLeft(attempt) == attempt + 1 < 3

\* the style tried after the /responses block
AfterResponses(style) == IF style \in {"", "chat"} THEN "chat" ELSE "return"

FirstStage_ChatFirst(style) == IF style \in {"", "chat"} THEN "chat" ELSE "responses"

\* the /responses block comes first in the code, the chat block second
FirstStage(style) == IF style \in {"", "responses"} THEN "responses" ELSE AfterResponses(style)

\* the end of the call: raise RuntimeError when a style failed, else nothing
Outcome(errors) == IF errors # {} THEN [kind |-> "raised", obj |-> LowSentiment] ELSE NoResult

\* leave the current style for the next one, with or without an error noted
NextStage(c, next, errors) ==
    [c EXCEPT !.stage = next, !.errors = errors,
              !.result = IF next = "return" THEN Outcome(errors) ELSE @]

Returned(c, obj) == [c EXCEPT !.stage = "return", !.result = [kind |-> "obj", obj |-> obj]]

\* one POST to /responses and what the loop and the code behind it do with the reply
\* (if obj: an object without members is passed over like no object)
ResponsesStep(c, reply, style) ==
    LET tried == [c EXCEPT !.attempt = @ + 1, !.last = reply.kind] IN
    CASE reply.kind = "object"  -> Returned(tried, reply.obj)
      [] reply.kind \in {"garbage", "empty"}
                                -> NextStage(tried, AfterResponses(style), c.errors)
      [] reply.kind = "status400" /\ Relax(c.effort, reply) # c.effort /\ RetryLeft(c.attempt)
                                -> [tried EXCEPT !.effort = Relax(c.effort, reply)]
      [] OTHER -> NextStage([tried EXCEPT !.effort = Relax(c.effort, reply)],
                            AfterResponses(style), c.errors \cup {"responses"})

ChatStep_Retry(c, reply) ==
    IF reply.kind = "object" THEN Returned([c EXCEPT !.last = reply.kind], reply.obj)
    ELSE [c EXCEPT !.errors = @ \cup {"chat"}, !.last = reply.kind]

\* the single POST to /chat/completions
ChatStep(c, reply) ==
    LET tried == [c EXCEPT !.last = reply.kind] IN
    IF reply.kind = "object" THEN Returned(tried, reply.obj)
    ELSE IF reply.kind \in {"garbage", "empty"} THEN NextStage(tried, "return", c.errors)
    ELSE NextStage(tried, "return", c.errors \cup {"chat"})

\* what requests.post can come to in this run: when the provider cannot be
\* reached every POST ends in an exception of requests
RepliesOf(e) == IF e.reachable THEN Replies ELSE { r \in Replies : r.kind = "exception" }

StartCall(purpose) ==
    /\ call' = NextStage([IdleCall EXCEPT !.purpose = purpose], FirstStage(env.style), {})
    /\ sent' = [sent EXCEPT !.responses = 0, !.chat = 0,
                            !.enriched = IF purpose = "sentiment" THEN @ + 1 ELSE @,
                            !.narrated = IF purpose = "journal" THEN @ + 1 ELSE @]

runState == << pc, exc, universe, batchStart, status, future, results,
               env, cursor, output, reportFile, journal, clock, scorerCalls, log >>

ResponsesRequest ==
    /\ call.stage = "responses"
    /\ \E reply \in RepliesOf(env) : call' = ResponsesStep(call, reply, env.style)
    /\ sent' = [sent EXCEPT !.responses = @ + 1, !.run = @ + 1]
    /\ UNCHANGED runState
    /\ UNCHANGED otherSpecs

ChatRequest ==
    /\ call.stage = "chat"
    /\ \E reply \in RepliesOf(env) : call' = ChatStep(call, reply)
    /\ sent' = [sent EXCEPT !.chat = @ + 1, !.run = @ + 1]
    /\ UNCHANGED runState
    /\ UNCHANGED otherSpecs


---------------------------------------------------------------------------
(* run_research: sort, sentiment enrichment of the top picks, re-sort *)

\* OPENAI_KEY, OPENAI_API_STYLE and the configuration keys the run reads only
\* after the scan; they are drawn when the code first reads them
\* reachable tells whether OPENAI_BASE_URL answers at all during this run
Environments ==
    { [key |-> TRUE, use_ai_sentiment |-> TRUE, ai_top_n |-> n, style |-> "",
       reachable |-> TRUE] : n \in {-1, 0, 1, DEFAULT_AI_TOP_N} }
    \cup { [key |-> TRUE, use_ai_sentiment |-> TRUE, ai_top_n |-> 1, style |-> st,
             reachable |-> TRUE] : st \in {"responses", "chat", "other"} }
    \cup { [key |-> k, use_ai_sentiment |-> ~k, ai_top_n |-> DEFAULT_AI_TOP_N, style |-> "",
             reachable |-> TRUE] : k \in BOOLEAN }
    \cup { [key |-> TRUE, use_ai_sentiment |-> TRUE, ai_top_n |-> DEFAULT_AI_TOP_N,
             style |-> "", reachable |-> FALSE] }

AiEnabled == env.key /\ env.use_ai_sentiment

\* results[:top_n_for_ai]
TopForAi == SliceTo(results, env.ai_top_n)

ScanOver == pc = "scan" /\ batchStart >= Len(universe)

\* results.sort after the scan, then the test that opens the enrichment stage
SortResults ==
    /\ ScanOver
    /\ results' = SortByScoreDesc(results)
    /\ \E e \in Environments :
          /\ env' = e
          /\ pc' = IF e.key /\ e.use_ai_sentiment THEN "enrich" ELSE "assemble"
    /\ cursor' = 1
    /\ UNCHANGED << exc, universe, batchStart, status, future, call, sent,
                    output, reportFile, journal, clock, scorerCalls, log >>
    /\ UNCHANGED otherSpecs

\* a top pick without headlines is passed over
EnrichSkip ==
    /\ pc = "enrich"
    /\ call.purpose = "idle"
    /\ cursor <= Len(TopForAi)
    /\ results[cursor].news = 0
    /\ cursor' = cursor + 1
    /\ UNCHANGED << pc, exc, universe, batchStart, status, future, results,
                    env, call, sent, output, reportFile, journal, clock,
                    scorerCalls, log >>
    /\ UNCHANGED otherSpecs

\* get_ai_sentiment(ticker, headlines, config, force=True) is entered
EnrichCall ==
    /\ pc = "enrich"
    /\ call.purpose = "idle"
    /\ cursor <= Len(TopForAi)
    /\ results[cursor].news > 0
    /\ StartCall("sentiment")
    /\ UNCHANGED runState
    /\ UNCHANGED otherSpecs

SentimentOf_Biased(result) == IF result.kind = "obj" THEN result.obj ELSE MildAnswer

\* what get_ai_sentiment returns: the parsed object as it is, or the low default
SentimentOf(result) == IF result.kind = "obj" THEN result.obj ELSE LowSentiment

ApplySentiment_Twice(r, ai) ==
    LET stored  == [r EXCEPT !.ai_sentiment = ai]
        rule    == SentimentRule(ai)
        bumped  == [stored EXCEPT !.score = @ + rule.pts + rule.pts]
        tagged  == [bumped EXCEPT !.reasons = @ \o rule.why]
        redone  == [tagged EXCEPT !.trade_idea =
                       generate_trade_idea(tagged, tagged.reasons, tagged.trade_idea.direction)]
    IN  IF ai.score = None THEN [row |-> stored, raised |-> TRUE]
        ELSE IF Abs(ai.score) >= 3 /\ ai.summary = "null" THEN [row |-> bumped, raised |-> TRUE]
        ELSE IF EntryExitRaises(tagged.rsi, tagged.trade_idea.direction)
             THEN [row |-> tagged, raised |-> TRUE]
        ELSE [row |-> redone, raised |-> FALSE]

\* the body of the enrichment loop after the call: store the sentiment, add
\* the sentiment rule to the score, extend the reasons, regenerate the idea.
\* abs() of a score that is no number and [:30] of a null summary are TypeErrors.
ApplySentiment(r, ai) ==
    LET stored  == [r EXCEPT !.ai_sentiment = ai]
        rule    == SentimentRule(ai)
        bumped  == [stored EXCEPT !.score = @ + rule.pts]
        tagged  == [bumped EXCEPT !.reasons = @ \o rule.why]
        redone  == [tagged EXCEPT !.trade_idea =
                       generate_trade_idea(tagged, tagged.reasons, tagged.trade_idea.direction)]
    IN  IF ai.score = None THEN [row |-> stored, raised |-> TRUE]
        ELSE IF Abs(ai.score) >= 3 /\ ai.summary = "null" THEN [row |-> bumped, raised |-> TRUE]
        ELSE IF EntryExitRaises(tagged.rsi, tagged.trade_idea.direction)
             THEN [row |-> tagged, raised |-> TRUE]
        ELSE [row |-> redone, raised |-> FALSE]

EnrichApply ==
    /\ pc = "enrich"
    /\ call.purpose = "sentiment"
    /\ call.stage = "return"
    /\ LET done == ApplySentiment(results[cursor], SentimentOf(call.result)) IN
          /\ results' = [results EXCEPT ![cursor] = done.row]
          /\ pc' = IF done.raised THEN "raised" ELSE pc
          /\ exc' = IF done.raised THEN "TypeError" ELSE exc
    /\ cursor' = cursor + 1
    /\ call' = IdleCall
    /\ sent' = [sent EXCEPT !.responses = 0, !.chat = 0]
    /\ UNCHANGED << universe, batchStart, status, future, env,
                    output, reportFile, journal, clock, scorerCalls, log >>
    /\ UNCHANGED otherSpecs

\* the loop is over: re-sort after the AI adjustments
EnrichEnd ==
    /\ pc = "enrich"
    /\ call.purpose = "idle"
    /\ cursor > Len(TopForAi)
    /\ results' = SortByScoreDesc(results)
    /\ pc' = "assemble"
    /\ UNCHANGED << exc, universe, batchStart, status, future, env, cursor,
                    call, sent, output, reportFile, journal, clock, scorerCalls, log >>
    /\ UNCHANGED otherSpecs

---------------------------------------------------------------------------
(* run_research: the report *)

RECURSIVE SelectSeq2(_, _)
\* [r for r in seq if keep[r.ticker]]
SelectSeq2(seq, keep) ==
    IF seq = << >> THEN << >>
    ELSE IF Head(seq).ticker \in keep THEN << Head(seq) >> \o SelectSeq2(Tail(seq), keep)
    ELSE SelectSeq2(Tail(seq), keep)

EarningsPlays(rs) ==
    SelectSeq2(rs, { r.ticker : r \in { x \in Range(rs) :
        Truthy(x.days_to_earnings) /\ 0 <= x.days_to_earnings /\ x.days_to_earnings <= 7 } })

MomentumPlays(rs) ==
    SelectSeq2(rs, { r.ticker : r \in { x \in Range(rs) :
        Abs(x.momentum_5d) >= 5 /\ x \notin Range(EarningsPlays(rs)) } })

OversoldPlays(rs) ==
    SelectSeq2(rs, { r.ticker : r \in { x \in Range(rs) :
        Truthy(x.rsi) /\ x.rsi <= 35 /\ x \notin Range(EarningsPlays(rs)) } })

TickerSeq(rs) == [j \in 1..Len(rs) |-> rs[j].ticker]

RECURSIVE Dateless(_, _)
\* {"ticker": t, "earnings_date": None} for t in universe[j:] if t is not in rs
Dateless(j, rs) ==
    IF j > Len(universe) THEN << >>
    ELSE (IF universe[j] \in Range(TickerSeq(rs)) THEN << >>
          ELSE << [ticker |-> universe[j], earnings_date |-> None] >>)
         \o Dateless(j + 1, rs)

\* the list run_research hands to build_earnings_calendar: the results with a
\* days_to_earnings, then a dateless entry for every other ticker of the universe
CalendarInput(rs) ==
    LET dated == SelectSeq(rs, LAMBDA r : r.days_to_earnings # None)
    IN  [j \in 1..Len(dated) |-> [ticker |-> dated[j].ticker,
                                   earnings_date |-> dated[j].earnings_date]]
        \o Dateless(1, rs)

\* one row per day from today on, each with the entries whose earnings_date is
\* that day (days are offsets from today)
build_earnings_calendar(entries) ==
    [i \in 1..CALENDAR_DAYS |->
        [date     |-> i - 1,
         is_today |-> i = 1,
         earnings |-> TickerSeq(SelectSeq(entries, LAMBDA r : r.earnings_date = i - 1))]]

\* the summary block of the report: counts over the whole result list
Summary(rs) ==
    [total_scanned       |-> Len(universe),
     passed_filters      |-> Len(rs),
     opportunities_found |-> Cardinality({ j \in 1..Len(rs) : rs[j].score >= 8 }),
     earnings_upcoming   |-> Len(EarningsPlays(rs)),
     oversold_count      |-> Len(OversoldPlays(rs))]

\* the report without the slices of the picks and of the categories
Assemble_Unsliced(rs, now) ==
    [generated_at   |-> now,
     summary        |-> Summary(rs),
     earnings_calendar |-> build_earnings_calendar(CalendarInput(rs)),
     top_picks      |-> rs,
     earnings_plays |-> EarningsPlays(rs),
     momentum_plays |-> MomentumPlays(rs),
     oversold_plays |-> OversoldPlays(rs),
     all_results    |-> rs]

Assemble(rs, now) ==
    [generated_at   |-> now,
     summary        |-> Summary(rs),
     earnings_calendar |-> build_earnings_calendar(CalendarInput(rs)),
     top_picks      |-> SliceTo(rs, TOP_PICKS),
     earnings_plays |-> SliceTo(EarningsPlays(rs), CATEGORY_CAP),
     momentum_plays |-> SliceTo(MomentumPlays(rs), CATEGORY_CAP),
     oversold_plays |-> SliceTo(OversoldPlays(rs), CATEGORY_CAP),
     all_results    |-> rs]

AfterReportWrite_Caught(io) == "journal"

\* no try around the write of the report: its error leaves run_research
AfterReportWrite(io) == IF io = "ok" THEN "journal" ELSE "raised"

\* open(OUTPUT_FILE, 'w') and json.dump: the file is truncated by the open and
\* filled by the dump; an OSError of either leaves run_research
WriteReport ==
    /\ pc = "assemble"
    /\ output' = Assemble(results, clock)
    /\ \E io \in {"ok", "open_fails", "dump_fails"} :
          /\ reportFile' = CASE io = "ok" -> [state |-> "complete", generated_at |-> clock]
                             [] io = "dump_fails" -> [state |-> "partial", generated_at |-> clock]
                             [] OTHER -> reportFile
          /\ pc' = AfterReportWrite(io)
          /\ exc' = IF io = "ok" THEN exc ELSE "OSError"
    /\ UNCHANGED << universe, batchStart, status, future, results, env, cursor,
                    call, sent, journal, clock, scorerCalls, log >>
    /\ UNCHANGED otherSpecs

---------------------------------------------------------------------------
(* The journal persister *)

CondensedPicks(picks) == [j \in 1..Len(picks) |-> picks[j].ticker]

\* created_at read from the clock when the entry is built
_build_basic_research_journal_entry_Now(out) ==
    [created_at |-> out.generated_at + 1,
     title      |-> [opportunities |-> out.summary.opportunities_found,
                     earnings      |-> out.summary.earnings_upcoming,
                     oversold      |-> out.summary.oversold_count],
     summary    |-> [scanned |-> out.summary.total_scanned,
                     passed  |-> out.summary.passed_filters],
     top_picks  |-> CondensedPicks(SliceTo(out.top_picks, JOURNAL_PICKS)),
     ai_journal |-> FALSE]

\* the title and the summary line are formatted from the counts named here
_build_basic_research_journal_entry(out) ==
    [created_at |-> out.generated_at,
     title      |-> [opportunities |-> out.summary.opportunities_found,
                     earnings      |-> out.summary.earnings_upcoming,
                     oversold      |-> out.summary.oversold_count],
     summary    |-> [scanned |-> out.summary.total_scanned,
                     passed  |-> out.summary.passed_filters],
     top_picks  |-> CondensedPicks(SliceTo(out.top_picks, JOURNAL_PICKS)),
     ai_journal |-> FALSE]

Merge_Prepend(entries, entry) == << entry >> \o entries

Merge_Rewrite(entries, entry) == << entry >>

\* created_at of a list element that is no JSON object (a string, a number)
NotAnObject == -998

\* entries[0].get(...) of a head element that is no object is an
\* AttributeError; it leaves append_research_journal before the write
MergeRaises(entries) == entries # << >> /\ entries[1].created_at = NotAnObject

\* _load_json_list: the list the file holds; the empty list when there is no
\* file, when it cannot be parsed and when its document is no list
_load_json_list(content) == IF content.kind = "list" THEN content.entries ELSE << >>

\* de-dupe on the head entry's timestamp, else prepend
Merge(entries, entry) ==
    IF entries # << >> /\ entries[1].created_at = entry.created_at
    THEN << entry >> \o Tail(entries)
    ELSE << entry >> \o entries

append_research_journal_Uncapped(entries, out, narrative, cap) ==
    Merge(entries, _build_basic_research_journal_entry(out))

\* the list append_research_journal hands to _atomic_write_json
append_research_journal(entries, out, narrative, cap) ==
    LET basic == _build_basic_research_journal_entry(out)
        entry == IF narrative.kind = "obj" THEN [basic EXCEPT !.ai_journal = TRUE] ELSE basic
    IN  SliceTo(Merge(entries, entry), cap)

JournalNarrative_Unguarded ==
    /\ pc = "journal"
    /\ call.purpose = "idle"
    /\ StartCall("journal")
    /\ UNCHANGED runState
    /\ UNCHANGED otherSpecs

\* the optional narrative: one call of _openai_generate_json
JournalNarrative ==
    /\ pc = "journal"
    /\ AiEnabled
    /\ call.purpose = "idle"
    /\ StartCall("journal")
    /\ UNCHANGED runState
    /\ UNCHANGED otherSpecs

\* the lines run_research prints after append_research_journal: the except
\* clause names the error, then the completion is reported either way
JournalOutcome(io) ==
    (IF io = "ok" THEN {} ELSE {"Journal update error"}) \cup {"Research complete!"}

\* the entry is merged and written; an error of the write is caught and printed
\* by run_research, which then completes
JournalWrite ==
    /\ pc = "journal"
    /\ \/ ~AiEnabled /\ call.purpose = "idle"
       \/ call.purpose = "journal" /\ call.stage = "return"
    /\ \E io \in {"ok", "fails"} :
          LET done == io = "ok" /\ ~MergeRaises(journal) IN
          /\ journal' = IF done
                        THEN append_research_journal(journal, output, call.result, max_entries)
                        ELSE journal
          /\ log' = JournalOutcome(IF done THEN "ok" ELSE "fails")
    /\ call' = IdleCall
    /\ sent' = [sent EXCEPT !.responses = 0, !.chat = 0]
    /\ pc' = "done"
    /\ UNCHANGED << exc, universe, batchStart, status, future, results, env,
                    cursor, output, reportFile, clock, scorerCalls >>
    /\ UNCHANGED otherSpecs

Next ==
    \/ SubmitBatch
    \/ \E t \in Tickers : WorkerStart(t)
    \/ \E t \in Tickers : WorkerFinish(t)
    \/ \E t \in Tickers : Consume(t)
    \/ EndBatch
    \/ SortResults
    \/ EnrichSkip
    \/ EnrichCall
    \/ ResponsesRequest
    \/ ChatRequest
    \/ EnrichApply
    \/ EnrichEnd
    \/ WriteReport
    \/ JournalNarrative
    \/ JournalWrite

Init == InitRun /\ InitOther

Spec == Init /\ [][Next]_vars

\* every POST carries a timeout, every worker returns and every loop of
\* run_research is bounded: a run that can take a step takes one
SpecLive == Spec /\ WF_vars(Next)


---------------------------------------------------------------------------
(* The journal over many runs: append_research_journal called again and    *)
(* again, with the timestamps and the configured maximum free              *)

\* timestamps are 1..MaxTime
MaxTime == 3

\* the largest configured maximum of the journal specification
MaxJournal == 3

Count(entries, ts) == Cardinality({ j \in 1..Len(entries) : entries[j].created_at = ts })

\* one call of append_research_journal with a report generated at ts, the
\* narrative call having produced an object or not
JournalRun(ts, narrated) ==
    LET out       == [NoOutput EXCEPT !.generated_at = ts]
        narrative == IF narrated THEN [kind |-> "obj", obj |-> LowSentiment] ELSE NoResult
        entry     == _build_basic_research_journal_entry(out)
    IN  /\ journal' = IF MergeRaises(journal) THEN journal
                      ELSE append_research_journal(journal, out, narrative, max_entries)
        /\ lastCall' = [at       |-> ts,
                        repeat   |-> ts = lastCall.at,
                        monotone |-> lastCall.monotone /\ ts >= lastCall.at,
                        cut      |-> /\ ~MergeRaises(journal)
                                     /\ Len(Merge(journal, entry)) > Len(SliceTo(Merge(journal, entry), max_entries)),
                        tick     |-> 1 - lastCall.tick]
        /\ UNCHANGED << pc, exc, universe, batchStart, status, future, results, env,
                        cursor, call, sent, output, reportFile, clock, max_entries,
                        disk, wr, scorerCalls, log, probe, cache, refresh >>

JournalNext == \E ts \in 1..MaxTime : \E narrated \in BOOLEAN : JournalRun(ts, narrated)

JournalInit ==
    /\ InitRun
    /\ lastCall = NoCall
    /\ max_entries \in -1..MaxJournal
    /\ disk = [f \in Files |-> NoContent]
    /\ wr = NoWrite
    /\ probe = NoProbe
    /\ cache = NoCache
    /\ refresh = NoRefresh

SpecJournal == JournalInit /\ [][JournalNext]_vars

\* an element found in the journal file: an entry with the created_at c, an
\* object without created_at (None), or no object at all
PriorEntry(c) == [_build_basic_research_journal_entry(NoOutput) EXCEPT !.created_at = c]

\* what research_journal.json can hold before a call: nothing, no JSON, a
\* document that is no list, or a list of at most two elements
JournalFiles ==
    { [kind |-> k, entries |-> << >>] : k \in {"absent", "corrupt", "object"} }
    \cup { [kind |-> "list", entries |-> [j \in 1..n |-> PriorEntry(c[j])]] :
             n \in 0..2, c \in [1..2 -> {1, 2, None, NotAnObject}] }

JournalFileInit ==
    /\ pc = "scan"
    /\ exc = ""
    /\ universe = get_universe(NoCache, MaxTickers)
    /\ batchStart = 0
    /\ status = [t \in 1..MaxTickers |-> "waiting"]
    /\ future = [t \in 1..MaxTickers |-> NoData]
    /\ results = << >>
    /\ env = EnvUnread
    /\ cursor = 0
    /\ call = IdleCall
    /\ sent = [responses |-> 0, chat |-> 0, run |-> 0, enriched |-> 0, narrated |-> 0]
    /\ output = NoOutput
    /\ reportFile = NoFile
    /\ clock = 1
    /\ scorerCalls = [t \in 1..MaxTickers |-> 0]
    /\ log = {}
    /\ lastCall = NoCall
    /\ max_entries \in -1..MaxJournal
    /\ disk = [f \in Files |-> NoContent]
    /\ wr = NoWrite
    /\ probe = NoProbe
    /\ cache = NoCache
    /\ refresh = NoRefresh
    /\ \E content \in JournalFiles : journal = _load_json_list(content)

\* the calls of SpecJournal, the first of them finding any of JournalFiles
SpecJournalFile == JournalFileInit /\ [][JournalNext]_vars


---------------------------------------------------------------------------
(* The file writers, one system call at a time, with the process free to   *)
(* crash between any two of them.  A file's content is the document it was *)
(* opened for and how many of its Chunks pieces have been written.         *)

\* the pieces json.dump writes a document in
Chunks == 2

\* the documents written are 1..MaxVersion
MaxVersion == 2

Targets == {"research.json", "research_journal.json", "config.json"}

\* run_research and save_config open their file for writing; only
\* append_research_journal goes through _atomic_write_json
Writer(f) == IF f = "research_journal.json" THEN "atomic" ELSE "direct"

\* the file the writer opens with mode 'w': path.name + ".tmp" in _atomic_write_json
Opened(f, method) == IF method = "atomic" THEN "research_journal.json.tmp" ELSE f

Whole(v) == [doc |-> v, len |-> Chunks]

persistFrame == << pc, exc, universe, batchStart, status, future, results, env, cursor,
                   call, sent, output, reportFile, journal, clock, lastCall, max_entries,
                   scorerCalls, log, probe, cache, refresh >>

\* open(..., 'w'): the opened file is created or emptied
BeginWrite(f, v) ==
    /\ wr.step \in {"idle", "done"} \/ wr.crashed
    /\ disk' = [disk EXCEPT ![Opened(f, Writer(f))] = [doc |-> v, len |-> 0]]
    /\ wr' = [target |-> f, method |-> Writer(f), doc |-> v, step |-> "writing",
              before |-> disk[f], crashed |-> FALSE]
    /\ UNCHANGED persistFrame

\* json.dump writes the next piece
WriteChunk ==
    /\ wr.step = "writing"
    /\ ~wr.crashed
    /\ disk[Opened(wr.target, wr.method)].len < Chunks
    /\ disk' = [disk EXCEPT ![Opened(wr.target, wr.method)].len = @ + 1]
    /\ UNCHANGED wr
    /\ UNCHANGED persistFrame

\* the with block is left: the file is closed
CloseFile ==
    /\ wr.step = "writing"
    /\ ~wr.crashed
    /\ disk[Opened(wr.target, wr.method)].len = Chunks
    /\ wr' = [wr EXCEPT !.step = IF wr.method = "atomic" THEN "closed" ELSE "done"]
    /\ UNCHANGED disk
    /\ UNCHANGED persistFrame

\* os.replace(tmp, path) comes after the with block
RenameReady_Early(w) == w.step \in {"writing", "closed"}

RenameReady(w) == w.step = "closed"

Rename ==
    /\ wr.method = "atomic"
    /\ ~wr.crashed
    /\ RenameReady(wr)
    /\ disk' = [disk EXCEPT ![wr.target] = disk["research_journal.json.tmp"],
                            !["research_journal.json.tmp"] = NoContent]
    /\ wr' = [wr EXCEPT !.step = "done"]
    /\ UNCHANGED persistFrame

\* the process dies during a write
Crash ==
    /\ wr.step \in {"writing", "closed"}
    /\ ~wr.crashed
    /\ wr' = [wr EXCEPT !.crashed = TRUE]
    /\ UNCHANGED disk
    /\ UNCHANGED persistFrame

PersistNext ==
    \/ \E f \in Targets : \E v \in 1..MaxVersion : BeginWrite(f, v)
    \/ WriteChunk
    \/ CloseFile
    \/ Rename
    \/ Crash

SpecPersist == Init /\ [][PersistNext]_vars


---------------------------------------------------------------------------
(* score_opportunity, generate_trade_idea and the gate of get_ai_sentiment, *)
(* each called on arguments drawn from the sets below                       *)

\* most headlines handed to get_ai_sentiment
MaxHeadlines == 2

PricedOptions == [present |-> TRUE, iv_avg |-> 85, expected_move_pct |-> 12,
                  call_suggestion |-> TRUE, put_suggestion |-> FALSE]

CheapOptions == [present |-> TRUE, iv_avg |-> 25, expected_move_pct |-> 4,
                 call_suggestion |-> FALSE, put_suggestion |-> FALSE]

\* the signals get_stock_data can hand on: an rsi of 0 is round(rsi, 1) of a
\* last RSI value below 0.05
Signals ==
    [days_to_earnings : {None, 0, 2, 5, 9},
     vol_surge        : {10, 15, 25},
     momentum_5d      : {-10, -4, 0, 5, 12},
     rsi              : {None, 0, 28, 50, 70},
     trend            : {"bullish", "bearish", "neutral"},
     options          : {NoOptions, PricedOptions, CheapOptions},
     ai_sentiment     : {PendingSentiment, StrongAnswer, MildAnswer, NullSummaryAnswer}]

\* OPENAI_KEY and OPENAI_API_STYLE of a direct call of get_ai_sentiment
GateEnvironments ==
    { [key |-> k, use_ai_sentiment |-> TRUE, ai_top_n |-> DEFAULT_AI_TOP_N, style |-> st,
       reachable |-> TRUE] : k \in BOOLEAN, st \in {"", "responses", "chat", "other"} }

SentimentGate_Eager(key, headlines, force, force_ai_all) ==
    IF ~key \/ headlines = 0 THEN "low" ELSE "ask"

\* the two early returns of get_ai_sentiment
SentimentGate(key, headlines, force, force_ai_all) ==
    IF ~key \/ headlines = 0 THEN "low"
    ELSE IF ~force /\ ~force_ai_all THEN "skipped"
    ELSE "ask"

PureInit ==
    /\ pc = "scan"
    /\ exc = ""
    /\ universe = get_universe(NoCache, MaxTickers)
    /\ batchStart = 0
    /\ status = [t \in 1..MaxTickers |-> "waiting"]
    /\ future = [t \in 1..MaxTickers |-> NoData]
    /\ results = << >>
    /\ cursor = 0
    /\ call = IdleCall
    /\ sent = [responses |-> 0, chat |-> 0, run |-> 0, enriched |-> 0, narrated |-> 0]
    /\ output = NoOutput
    /\ reportFile = NoFile
    /\ journal = << >>
    /\ clock = 1
    /\ scorerCalls = [t \in 1..MaxTickers |-> 0]
    /\ log = {}
    /\ lastCall = NoCall
    /\ max_entries = DEFAULT_MAX_ENTRIES
    /\ disk = [f \in Files |-> NoContent]
    /\ wr = NoWrite
    /\ cache = NoCache
    /\ refresh = NoRefresh
    /\ \/ /\ env = EnvUnread
          /\ \E sig \in Signals :
                probe = [NoProbe EXCEPT !.kind = "signal", !.stage = "input", !.signal = sig]
       \/ /\ env \in GateEnvironments
          /\ \E n \in 0..MaxHeadlines : \E f \in BOOLEAN : \E all \in BOOLEAN :
                probe = [NoProbe EXCEPT !.kind = "gate", !.stage = "input", !.headlines = n,
                                        !.force = f, !.force_ai_all = all]

pureFrame == << pc, exc, universe, batchStart, status, future, results, env, cursor,
                output, reportFile, journal, clock, scorerCalls, log,
                lastCall, max_entries, disk, wr, cache, refresh >>

\* score, reasons = score_opportunity(data, config)
ScoreSignal ==
    /\ probe.kind = "signal"
    /\ probe.stage = "input"
    /\ probe' = IF ScorerRaises(probe.signal)
                THEN [probe EXCEPT !.stage = "raised"]
                ELSE [probe EXCEPT !.stage = "scored",
                                   !.scored = score_opportunity(probe.signal)]
    /\ UNCHANGED << call, sent >>
    /\ UNCHANGED pureFrame

\* generate_trade_idea(data, score, reasons) of a signal that carries no trade
\* idea yet
TradeIdea ==
    /\ probe.kind = "signal"
    /\ probe.stage = "scored"
    /\ probe' = IF EntryExitRaises(probe.signal.rsi, "CALL")
                THEN [probe EXCEPT !.stage = "raised"]
                ELSE [probe EXCEPT !.stage = "idea",
                         !.direction = generate_trade_idea(probe.signal, probe.scored.reasons,
                                                           "").direction]
    /\ UNCHANGED << call, sent >>
    /\ UNCHANGED pureFrame

\* get_ai_sentiment(ticker, headlines, config, force) up to its first request
AskSentiment ==
    /\ probe.kind = "gate"
    /\ probe.stage = "input"
    /\ LET gate == SentimentGate(env.key, probe.headlines, probe.force, probe.force_ai_all) IN
       IF gate = "ask"
       THEN /\ StartCall("sentiment")
            /\ probe' = [probe EXCEPT !.stage = "asking"]
       ELSE /\ probe' = [probe EXCEPT !.stage = "answered",
                             !.answer = IF gate = "low" THEN LowSentiment ELSE SkippedSentiment]
            /\ UNCHANGED << call, sent >>
    /\ UNCHANGED pureFrame

\* the chain of requests is over: get_ai_sentiment returns
SentimentReturn ==
    /\ probe.kind = "gate"
    /\ probe.stage = "asking"
    /\ call.stage = "return"
    /\ probe' = [probe EXCEPT !.stage = "answered", !.answer = SentimentOf(call.result)]
    /\ call' = IdleCall
    /\ UNCHANGED sent
    /\ UNCHANGED pureFrame

PureNext ==
    \/ ScoreSignal
    \/ TradeIdea
    \/ AskSentiment
    \/ ResponsesRequest
    \/ ChatRequest
    \/ SentimentReturn

SpecPure == PureInit /\ [][PureNext]_vars

---------------------------------------------------------------------------
(* The universe: update_universe_from_alpaca writes the cache file,        *)
(* get_universe reads it at the start of a run                             *)

\* broker symbols outside the curated list
BrokerOnly == 3

\* new_tickers[:200], scaled to the broker lists of the model
MaxAdditions == 2

\* longest asset list the broker answers with
MaxAssets == 3

\* an asset the filter drops (not tradable, not fractionable, a warrant or a
\* symbol of more than 5 characters)
Untradable == 0

BrokerSymbols == (MaxCurated + 1)..(MaxCurated + BrokerOnly)

\* the symbols of an asset list: a curated one, a dropped one, the broker's own
AssetPool == {1, Untradable} \cup BrokerSymbols

AssetLists ==
    { a \in UNION { [1..n -> AssetPool] : n \in 0..MaxAssets } :
          \A j \in 1..Len(a) : \A k \in 1..Len(a) : j # k => a[j] # a[k] }

\* what the GET of /v2/assets can come to: requests raises, an error status,
\* a body that is no JSON, a JSON value whose elements are no asset objects,
\* the empty object {}, a list of assets
BrokerReplies ==
    { [kind |-> k, assets |-> << >>] :
          k \in {"unreachable", "error_status", "not_json", "not_assets", "empty_object"} }
    \cup { [kind |-> "assets", assets |-> a] : a \in AssetLists }

RECURSIVE Keep(_, _)
\* [x for x in seq if x not in drop]
Keep(seq, drop) ==
    IF seq = << >> THEN << >>
    ELSE (IF Head(seq) \in drop THEN << >> ELSE << Head(seq) >>) \o Keep(Tail(seq), drop)

\* tradeable, then new_tickers = [t for t in tradeable if t not in existing]
NewTickers(assets) == Keep(Keep(assets, {Untradable}), Range(ROBINHOOD_POPULAR))

\* list(existing): the order of a set of strings is not fixed
CuratedOrders ==
    { ROBINHOOD_POPULAR, [j \in 1..MaxCurated |-> ROBINHOOD_POPULAR[MaxCurated + 1 - j]] }

\* the document json.dump writes
Written(assets, order) ==
    [kind |-> "doc", tickers |-> order \o SliceTo(NewTickers(assets), MaxAdditions)]

\* the answers the code reads through: iterating over {} yields no asset
ReadThrough(reply) == reply.kind \in {"empty_object", "assets"}

\* the cache files a run can find
CacheDocs ==
    { NoCache, [kind |-> "malformed", tickers |-> << >>] }
    \cup { [kind |-> "doc", tickers |-> t] :
             t \in UNION { [1..n -> {1, MaxCurated + 1, MaxCurated + 2}] : n \in 0..2 } }

\* max_tickers of the configuration document; None is a JSON null
MaxTickersValues == {None, -1, 0, 2, MaxCurated, MaxCurated + 1, MaxCurated + BrokerOnly}

UniverseInit ==
    /\ InitRun
    /\ lastCall = NoCall
    /\ max_entries = DEFAULT_MAX_ENTRIES
    /\ disk = [f \in Files |-> NoContent]
    /\ wr = NoWrite
    /\ probe = NoProbe
    /\ cache \in CacheDocs
    /\ \E m \in MaxTickersValues : refresh = [NoRefresh EXCEPT !.max_tickers = m]

universeFrame == << pc, exc, batchStart, status, future, results, env, cursor, call, sent,
                    output, reportFile, journal, clock, scorerCalls, log,
                    lastCall, max_entries, disk, wr, probe >>

\* update_universe_from_alpaca has returned, the cache file holding doc
RefreshReturns(keys, reply, io, doc) ==
    /\ cache' = doc
    /\ refresh' = [refresh EXCEPT !.op = "refresh", !.keys = keys, !.reply = reply,
                                  !.io = io, !.raised = FALSE]
    /\ UNCHANGED universe
    /\ UNCHANGED universeFrame

\* update_universe_from_alpaca: without keys it returns at once; every
\* exception between the GET and the end of the write is caught and printed;
\* open(UNIVERSE_FILE, 'w') empties the file before json.dump fills it
Refresh ==
    \/ RefreshReturns(FALSE, "none", "none", cache)
    \/ \E reply \in { r \in BrokerReplies : ~ReadThrough(r) } :
          RefreshReturns(TRUE, reply.kind, "none", cache)
    \/ \E reply \in { r \in BrokerReplies : ReadThrough(r) } : \E order \in CuratedOrders :
          RefreshReturns(TRUE, reply.kind, "ok", Written(reply.assets, order))
    \/ \E kind \in {"empty_object", "assets"} :
          \/ RefreshReturns(TRUE, kind, "open_fails", cache)
          \/ RefreshReturns(TRUE, kind, "dump_fails", [kind |-> "malformed", tickers |-> << >>])

\* run_research takes get_universe(config) when ticker_discovery cannot be
\* imported; an exception of get_universe leaves run_research
LoadUniverse ==
    /\ universe' = IF get_universe_Raises(cache) THEN universe
                   ELSE get_universe(cache, refresh.max_tickers)
    /\ refresh' = [refresh EXCEPT !.op = "load", !.keys = FALSE, !.reply = "none",
                                  !.io = "none", !.raised = get_universe_Raises(cache)]
    /\ UNCHANGED cache
    /\ UNCHANGED universeFrame

UniverseNext == Refresh \/ LoadUniverse

SpecUniverse == UniverseInit /\ [][UniverseNext]_vars

---------------------------------------------------------------------------
(* Properties of one run (specification Spec) *)

ResultTickers == Range(TickerSeq(results))

\* what the loop body does with a resolved future: the ticker joins the
\* results exactly when its signal is there, meets min_score and its trade
\* idea can be computed
Accepted(data) ==
    /\ data # NoData
    /\ MeetsMinScore(data)
    /\ ~EntryExitRaises(data.rsi, "CALL")

\* C1: a ticker whose fetch or scoring raises is only left out of the
\* results: no exception leaves the scan, the scan can always go on until
\* every ticker of every batch was processed, and in the batch at hand every
\* processed ticker is in the results exactly when its own future carries an
\* acceptable signal, whatever happened to the others. No failing ticker
\* keeps the run from the report-writing step: a run that raises has either
\* reached the write of the report (OSError) or raised on an answer of the
\* AI provider in the enrichment stage (the subject of C2).
C1_ScanIsolatesFailures ==
    /\ pc = "raised" => batchStart >= Len(universe)
    /\ pc = "raised" =>
          \/ exc = "OSError"
          \/ exc = "TypeError" /\ AiEnabled /\ sent.enriched >= 1
    /\ pc = "scan" => ENABLED Next
    /\ pc # "scan" => \A t \in Range(universe) : status[t] = "consumed"
    /\ \A t \in Batch(batchStart) :
          status[t] = "consumed" => (t \in ResultTickers <=> Accepted(future[t]))
    /\ \A t \in ResultTickers : Accepted(get_stock_data(t, FALSE))

\* the report is written although ticker 1 of the first batch failed (its
\* quote alone would put it in the results); its batch neighbour 2 and ticker
\* 6 of the next batch are in the results
C1_Witness ==
    /\ pc = "journal"
    /\ reportFile.state = "complete"
    /\ 1 \notin ResultTickers
    /\ 2 \in ResultTickers
    /\ 6 \in ResultTickers

\* C2: no failure of the AI provider, a malformed answer included, makes
\* run_research raise during the enrichment stage.
C2_ProviderFailureNeverFatal == ~(pc = "raised" /\ exc = "TypeError")

\* C7: at most 3 get_stock_data calls are in flight, all of the current batch
\* of at most 5 tickers, and no ticker is started before every ticker of the
\* batches before its own was processed.
C7_BoundedFetchConcurrency ==
    /\ Cardinality(Running) <= 3
    /\ Running \subseteq Batch(batchStart)
    /\ Cardinality(Batch(batchStart)) <= 5
    /\ \A t \in Tickers : \A u \in Tickers :
          (BatchOf(u) < BatchOf(t) /\ status[t] \in {"queued", "running", "finished", "consumed"})
             => status[u] = "consumed"

\* the pool is full and a ticker of the batch waits for a worker
C7_Witness ==
    /\ Cardinality(Running) = 3
    /\ \E t \in Batch(batchStart) : status[t] = "queued"

RECURSIVE ScanRowsFrom(_)
\* the scan's rows of the tickers in the results, in the order of the universe
ScanRowsFrom(j) ==
    IF j > Len(universe) THEN << >>
    ELSE (IF universe[j] \in ResultTickers
          THEN << Scored(get_stock_data(universe[j], FALSE)) >> ELSE << >>)
         \o ScanRowsFrom(j + 1)

\* the ranking of the run in which every future completes in submission order
SubmissionOrderRanking == TickerSeq(SortByScoreDesc(ScanRowsFrom(1)))

\* C8: the ranking does not depend on the order in which the workers
\* complete: the list the enrichment stage takes its top picks from, and
\* all_results of a report written without enrichment, are the ranking of the
\* run whose workers complete in submission order.
C8_DeterministicRanking ==
    /\ pc = "enrich" => TickerSeq(results) = SubmissionOrderRanking
    /\ (pc \in {"journal", "done"} /\ ~AiEnabled)
          => TickerSeq(output.all_results) = SubmissionOrderRanking

\* C9: a sentiment request is sent only for a result among the first
\* ai_top_n of the sorted list that has a headline, and no request at all is
\* sent without a key or with use_ai_sentiment off.
C9_SentimentOnlyForTopN ==
    /\ (call.purpose = "sentiment" /\ sent.responses + sent.chat > 0)
          => (cursor <= env.ai_top_n /\ results[cursor].news >= 1)
    /\ (pc # "scan" /\ ~AiEnabled) => sent.run = 0

\* C10: one provider call sends at most 3 /responses requests and at most 1
\* /chat/completions request, and the run at most 4 x (enriched tickers + 1).
C10_RequestBudget ==
    /\ sent.responses <= 3
    /\ sent.chat <= 1
    /\ sent.run <= 4 * (sent.enriched + 1)

\* a sentiment call that used the whole budget: low, medium, no effort hint,
\* then the chat request
C10_Witness ==
    /\ call.purpose = "sentiment"
    /\ call.stage = "return"
    /\ sent.responses = 3
    /\ sent.chat = 1

---------------------------------------------------------------------------
(* Properties of the journal (specification SpecJournal) *)

\* the step is a call of append_research_journal with the timestamp of the
\* call before it
RepeatedCall == lastCall'.tick # lastCall.tick /\ lastCall'.at = lastCall.at

\* C3 as stated: after the second of two calls in a row with the same
\* generated_at there is exactly one entry with that created_at, and the
\* journal is as long as after the first.
C3_IdempotentRerun ==
    [][RepeatedCall => /\ Count(journal', lastCall.at) = 1
                       /\ Len(journal') = Len(journal)]_vars

\* C3 amended: under a configured maximum of at least 1 the second call
\* replaces the head entry: same length, same entries behind the head, the
\* same number of entries with that created_at, which is one when no entry
\* behind the head carries the timestamp.
C3_RerunReplacesHead ==
    [][(RepeatedCall /\ max_entries >= 1) =>
          /\ Len(journal') = Len(journal)
          /\ journal'[1].created_at = lastCall.at
          /\ Tail(journal') = Tail(journal)
          /\ Count(journal', lastCall.at) = Count(journal, lastCall.at)
          /\ (Count(Tail(journal), lastCall.at) = 0 => Count(journal', lastCall.at) = 1)]_vars

\* a repeated call has replaced the head of a journal of two entries
C3_Witness ==
    /\ lastCall.repeat
    /\ max_entries >= 1
    /\ Len(journal) = 2
    /\ Count(journal, lastCall.at) = 1

NewestFirst(entries) ==
    \A i \in 1..Len(entries) : \A j \in 1..Len(entries) :
        i < j => entries[i].created_at >= entries[j].created_at

StrictlyNewestFirst(entries) ==
    \A i \in 1..Len(entries) : \A j \in 1..Len(entries) :
        i < j => entries[i].created_at > entries[j].created_at

\* C4 as stated: after any calls, with any timestamps and any configured
\* maximum, the journal has at most that many entries and is ordered by
\* created_at from newest to oldest.
C4_JournalCappedNewestFirst ==
    lastCall.at # 0 => (Len(journal) <= max_entries /\ NewestFirst(journal))

\* C4 amended: under a configured maximum M >= 0 the journal has at most M
\* entries, and as long as no call carried a timestamp older than an earlier
\* call's its entries are ordered by created_at from newest to oldest.
C4_CappedAndNewestFirstInOrder ==
    /\ max_entries >= 0 => Len(journal) <= max_entries
    /\ lastCall.monotone => StrictlyNewestFirst(journal)

\* the last of a run of calls in timestamp order cut the journal to its maximum
C4_Witness ==
    /\ lastCall.cut
    /\ lastCall.monotone
    /\ max_entries >= 2
    /\ Len(journal) = max_entries

---------------------------------------------------------------------------
(* Properties of the file writers (specification SpecPersist) *)

\* C5: _atomic_write_json never leaves its target truncated or partial: until
\* the rename, crash or not, the target holds what it held before the call,
\* and after the rename it holds the whole new document.
C5_AtomicWrite ==
    /\ disk["research_journal.json"].len \in {0, Chunks}
    /\ disk["research_journal.json"].len = 0 => disk["research_journal.json"] = NoContent
    /\ (wr.method = "atomic" /\ wr.step \in {"writing", "closed"})
          => disk[wr.target] = wr.before
    /\ (wr.method = "atomic" /\ wr.step = "done") => disk[wr.target] = Whole(wr.doc)

\* a crash in the middle of the temporary file, the journal still whole
C5_Witness ==
    /\ wr.crashed
    /\ wr.method = "atomic"
    /\ wr.before # NoContent
    /\ disk["research_journal.json.tmp"].len > 0
    /\ disk["research_journal.json.tmp"].len < Chunks
    /\ disk["research_journal.json.tmp"].doc # wr.before.doc
    /\ disk[wr.target] = wr.before

\* C6: a crash during the write of the report, the journal or the
\* configuration leaves the previous version of that document intact.
C6_CrashKeepsPreviousVersion ==
    (wr.crashed /\ wr.before # NoContent) => disk[wr.target] = wr.before

---------------------------------------------------------------------------
(* Properties of the scan's filters and of the trade ideas (specification Spec) *)

\* the tickers of every list of the report
Reported ==
    Range(TickerSeq(output.top_picks)) \cup Range(TickerSeq(output.earnings_plays))
    \cup Range(TickerSeq(output.momentum_plays)) \cup Range(TickerSeq(output.oversold_plays))
    \cup Range(TickerSeq(output.all_results))

\* C11: a ticker whose latest close is above max_stock_price is never in the
\* results, nor in top_picks, a category list or all_results of the report.
C11_PriceFilter ==
    \A t \in Tickers :
        Quote(t).price > MAX_STOCK_PRICE => (t \notin ResultTickers /\ t \notin Reported)

\* a report with results was written after ticker 3, priced above the limit
\* and with a score that would rank it, was fetched and passed over
C11_Witness ==
    /\ pc = "done"
    /\ reportFile.state = "complete"
    /\ Len(output.all_results) >= 2
    /\ status[3] = "consumed"
    /\ Quote(3).price > MAX_STOCK_PRICE
    /\ MeetsMinScore(get_stock_data_Unfiltered(3, FALSE))
    /\ 3 \notin Reported

\* C12: every ticker whose future carries a signal that meets min_score is in
\* the result set exactly once, with a trade idea, a signal with a null RSI
\* included.
C12_EverySignalRanked ==
    \A t \in Batch(batchStart) :
        (status[t] = "consumed" /\ future[t] # NoData /\ MeetsMinScore(future[t]))
           => /\ Cardinality({ j \in 1..Len(results) : results[j].ticker = t }) = 1
              /\ \A j \in 1..Len(results) :
                    results[j].ticker = t =>
                        results[j].trade_idea.direction \in {"CALL", "PUT", "STRADDLE"}

\* C13: in the report every trade idea's entry/target/stop levels are those of
\* the branch of the direction the idea reports.
C13_LevelsFollowDirection ==
    pc \in {"journal", "done"} =>
        \A j \in 1..Len(output.all_results) :
            LET r == output.all_results[j] IN
            /\ r.trade_idea.entry_exit.direction = r.trade_idea.direction
            /\ r.trade_idea.entry_exit = calculate_entry_exit(r, r.trade_idea.direction)

---------------------------------------------------------------------------
(* Properties of the scores (specification Spec) *)

ScoreOf(rs, t) == rs[CHOOSE j \in 1..Len(rs) : rs[j].ticker = t].score

\* what the scan pass scored the ticker, its sentiment still pending
ScanScore(t) == score_opportunity(get_stock_data(t, FALSE)).score

\* the result went through the enrichment loop
Enriched(r) == r.ai_sentiment.confidence # "pending"

\* C14: no step of the enrichment stage lowers the score of a result: it adds
\* 0, 1 or 1.5 (0, 2 or 3 half points), whatever the provider returned.
C14_EnrichmentNeverLowers ==
    [][pc = "enrich" =>
          \A t \in ResultTickers :
              ScoreOf(results', t) - ScoreOf(results, t) \in {0, 2, 3}]_vars

\* in the enrichment stage one result was raised by 1.5 for a strong
\* sentiment and another by 1 for a bearish mild one
C14_Witness ==
    /\ pc = "enrich"
    /\ \E j \in 1..Len(results) :
          /\ results[j].ai_sentiment = StrongAnswer
          /\ results[j].score = ScanScore(results[j].ticker) + 3
    /\ \E j \in 1..Len(results) :
          /\ results[j].ai_sentiment = MildAnswer
          /\ results[j].score = ScanScore(results[j].ticker) + 2

\* C15: in the report the score and the reasons of every result are what
\* score_opportunity returns for the result's final signal, so the final score
\* holds the sentiment contribution once.
C15_SentimentCountedOnce ==
    pc \in {"journal", "done"} =>
        \A j \in 1..Len(output.all_results) :
            LET r == output.all_results[j] IN
            /\ r.score = score_opportunity(r).score
            /\ r.reasons = score_opportunity(r).reasons
            /\ r.score - ScanScore(r.ticker) = SentimentRule(r.ai_sentiment).pts

\* a report whose first result carries a strong sentiment and its reason
C15_Witness ==
    /\ pc = "journal"
    /\ Len(output.all_results) >= 2
    /\ output.all_results[1].ai_sentiment = StrongAnswer
    /\ output.all_results[1].reasons[Len(output.all_results[1].reasons)] = "ai_strong"
    /\ output.all_results[2].ai_sentiment.confidence = "pending"

\* C16 as stated: the Scorer is invoked twice for an enriched result, and a
\* sentiment that became strong is in its score twice.
C16_ScoredTwice ==
    pc \in {"journal", "done"} =>
        \A j \in 1..Len(output.all_results) :
            LET r == output.all_results[j] IN
            Enriched(r) =>
                /\ scorerCalls[r.ticker] = 2
                /\ Abs(r.ai_sentiment.score) >= 3 => r.score = ScanScore(r.ticker) + 6

\* C16 amended: the Scorer is invoked once for a result, in the scan pass; the
\* enrichment stage adds the sentiment contribution itself, so a sentiment
\* that became strong is in the score once (+1.5).
C16_ScoredOnce ==
    pc \in {"journal", "done"} =>
        \A j \in 1..Len(output.all_results) :
            LET r == output.all_results[j] IN
            /\ scorerCalls[r.ticker] = 1
            /\ (Enriched(r) /\ Abs(r.ai_sentiment.score) >= 3)
                  => r.score = ScanScore(r.ticker) + 3

\* the run is complete with a result whose sentiment moved to strong
C16_Witness ==
    /\ pc = "done"
    /\ \E j \in 1..Len(output.all_results) :
          /\ Enriched(output.all_results[j])
          /\ output.all_results[j].ai_sentiment.score >= 3
          /\ scorerCalls[output.all_results[j].ticker] = 1

---------------------------------------------------------------------------
(* Properties of the report and of its persistence (specification Spec) *)

\* C17: in the report every result's ai_sentiment has a score within
\* [-5, +5] and a confidence of low, pending or skipped, whatever the provider
\* returned.
C17_SentimentWellFormed ==
    pc \in {"journal", "done"} =>
        \A j \in 1..Len(output.all_results) :
            /\ output.all_results[j].ai_sentiment.score \in -5..5
            /\ output.all_results[j].ai_sentiment.confidence \in {"low", "pending", "skipped"}

\* days_to_earnings lies in the closed range [0, 7]
InEarningsWindow(r) ==
    r.days_to_earnings # None /\ 0 <= r.days_to_earnings /\ r.days_to_earnings <= 7

\* C18: earnings_plays holds the results whose days_to_earnings lies in
\* [0, 7], 0 included, in score order (the first 5 of them), and neither
\* momentum_plays nor oversold_plays holds such a result.
C18_EarningsPlaysClosedRange ==
    pc \in {"journal", "done"} =>
        /\ output.earnings_plays =
              SliceTo(SelectSeq(output.all_results, InEarningsWindow), CATEGORY_CAP)
        /\ \A j \in 1..Len(output.momentum_plays) : ~InEarningsWindow(output.momentum_plays[j])
        /\ \A j \in 1..Len(output.oversold_plays) : ~InEarningsWindow(output.oversold_plays[j])

\* C19: the calendar has 7 rows for the 7 days from today on, and the row of
\* a day lists exactly the tickers of the scanned universe whose earnings date
\* is that day, in the results or not.
C19_CalendarCoversUniverse ==
    pc \in {"journal", "done"} =>
        /\ Len(output.earnings_calendar) = 7
        /\ \A i \in 1..Len(output.earnings_calendar) :
              /\ output.earnings_calendar[i].date = i - 1
              /\ Range(output.earnings_calendar[i].earnings) =
                    { t \in Range(universe) : Quote(t).earnings_date = i - 1 }

\* C20 as stated: after a failure of the write of the report or of the
\* journal, run_research has raised and never reports completion.
C20_PersistenceFailureFatal ==
    (exc = "OSError" \/ "Journal update error" \in log)
       => (pc = "raised" /\ "Research complete!" \notin log)

\* C20 amended: a failure of the write of the report leaves run_research as
\* an exception, nothing reports completion and the journal is not touched; a
\* failure of the write of the journal is caught and printed, and the run
\* reports completion with the report written and the journal as it was.
C20_ReportFatalJournalCaught ==
    /\ exc = "OSError" =>
          (pc = "raised" /\ log = {} /\ reportFile.state # "complete" /\ journal = << >>)
    /\ "Journal update error" \in log =>
          (pc = "done" /\ exc = "" /\ "Research complete!" \in log
             /\ reportFile.state = "complete" /\ journal = << >>)

\* the write of the journal failed and the run reported completion
C20_Witness ==
    /\ pc = "done"
    /\ log = {"Journal update error", "Research complete!"}
    /\ reportFile.state = "complete"
    /\ Len(output.all_results) >= 1

---------------------------------------------------------------------------
(* C21: a run whose provider cannot be reached *)

\* the run has read its environment and the provider answers no request of it
Unreachable == env.style # "unread" /\ ~env.reachable

\* nothing of the provider reaches a result: neutral sentiment with confidence
\* pending or low, the score of the scan, and no TypeError of the enrichment
C21_NothingEnriched ==
    Unreachable =>
        /\ ~(pc = "raised" /\ exc = "TypeError")
        /\ \A j \in 1..Len(results) :
              /\ results[j].ai_sentiment.score = 0
              /\ results[j].ai_sentiment.confidence \in {"pending", "low"}
              /\ results[j].score = ScanScore(results[j].ticker)

\* the enrichment stage moves no score and no position of the sorted list
C21_OrderKept ==
    (Unreachable /\ Unreachable') =>
        /\ TickerSeq(results') = TickerSeq(results)
        /\ \A j \in 1..Len(results) : results'[j].score = results[j].score

\* the run has ended: completed after the report was written, or left by the
\* OSError of the report's own open or dump
C21_Ended ==
    \/ pc = "done" /\ reportFile.state = "complete" /\ reportFile.generated_at = clock
    \/ pc = "raised" /\ exc = "OSError"

\* C21: when the sentiment provider is unreachable for every call of a run,
\* the run still ends and writes its report (unless the report file itself
\* cannot be written), every result carries sentiment score 0 with confidence
\* "pending" or "low", and no score and no position in the ranking differs
\* from what it was before the enrichment stage.
C21_UnreachableProviderLeavesScanResult ==
    /\ []C21_NothingEnriched
    /\ [][C21_OrderKept]_vars
    /\ (Unreachable ~> C21_Ended)

\* a completed run whose calls all failed: two picks were tried and got the
\* low default, another was never tried, and the report is on disk
C21_Witness ==
    /\ Unreachable
    /\ pc = "done"
    /\ reportFile.state = "complete"
    /\ sent.enriched >= 2
    /\ sent.run >= 2 * sent.enriched
    /\ \E j \in 1..Len(results) : results[j].ai_sentiment.confidence = "low"
    /\ \E j \in 1..Len(results) : results[j].ai_sentiment.confidence = "pending"

---------------------------------------------------------------------------
(* C22: the narrative call of the journal persister *)

\* the step in which _atomic_write_json has replaced the journal file
JournalWritten == pc = "journal" /\ pc' = "done" /\ "Journal update error" \notin log'

\* _openai_generate_json is entered at most once, and only with a key and
\* use_ai_sentiment on
C22_OneGuardedCall ==
    /\ sent.narrated <= 1
    /\ sent.narrated = 1 => AiEnabled

\* the entry written: the basic entry of the report, with ai_journal exactly
\* when the call returned an object
C22_EntryWritten ==
    JournalWritten =>
        LET basic == _build_basic_research_journal_entry(output) IN
        /\ Len(journal') >= 1
        /\ journal'[1].created_at = output.generated_at
        /\ journal'[1].title = basic.title
        /\ journal'[1].summary = basic.summary
        /\ journal'[1].top_picks = CondensedPicks(SliceTo(output.top_picks, 5))
        /\ Len(journal'[1].top_picks) <= 5
        /\ journal'[1].ai_journal <=> (sent.narrated = 1 /\ call.result.kind = "obj")

\* C22: append_research_journal invokes _openai_generate_json at most once per
\* run, and only when the API key is set and use_ai_sentiment is true; when
\* that call fails or returns nothing, the entry is still written (the write
\* of the journal file succeeding) with its basic fields created_at, title,
\* summary and at most 5 top picks, and without ai_journal.
C22_NarrativeOptional == []C22_OneGuardedCall /\ [][C22_EntryWritten]_vars

\* a run whose narrative call failed after four requests and whose journal
\* holds the basic entry of a report with picks
C22_Witness ==
    /\ pc = "done"
    /\ AiEnabled
    /\ sent.narrated = 1
    /\ sent.run >= 4
    /\ sent.enriched = 0
    /\ Len(journal) = 1
    /\ ~journal[1].ai_journal
    /\ Len(journal[1].top_picks) >= 2
    /\ journal[1].summary.passed >= 2

---------------------------------------------------------------------------
(* C25: who writes the result list *)

\* a step of a pool thread: a task is taken up, or get_stock_data returns
WorkerStep ==
    \E t \in Tickers :
        \/ status[t] = "queued" /\ status'[t] = "running"
        \/ status[t] = "running" /\ status'[t] = "finished"

\* the step of the orchestrating thread that takes the resolved future of t
\* out of as_completed
ConsumeStep(t) ==
    /\ status[t] = "finished"
    /\ status'[t] = "consumed"
    /\ \A u \in Tickers \ {t} : status'[u] = status[u]

\* C25: the shared result list is never written by a worker thread: during the
\* scan every change of it is one append, made by the orchestrating thread in
\* the step that consumes a future that had already resolved, of the entry
\* scored from that future's signals.
C25_OnlyOrchestratorAppends ==
    [][ /\ WorkerStep => results' = results
        /\ (pc = "scan" /\ results' # results) =>
              \E t \in Tickers :
                  /\ ConsumeStep(t)
                  /\ future[t] # NoData
                  /\ results' = Append(results, Scored(future[t])) ]_vars

\* the list already holds an entry while a worker is still fetching and
\* another future waits resolved for the orchestrating thread
C25_Witness ==
    /\ pc = "scan"
    /\ Len(results) >= 1
    /\ Running # {}
    /\ \E t \in Tickers : status[t] = "finished" /\ future[t] # NoData

---------------------------------------------------------------------------
(* C28: the order of the fallback chain *)

\* a POST to /chat/completions is about to be sent, or was the last one sent
ChatReached == call.stage = "chat" \/ sent.chat > 0

\* the /responses style is switched off by OPENAI_API_STYLE
StructuredDisabled == env.style \notin {"", "responses"}

\* the claim as written: chat only after the structured style was disabled,
\* ended with an error or returned text without a JSON object, and no request
\* after a style returned a parsed object
C28_ChatOnlyAfterNoObject ==
    /\ call.stage = "chat" =>
          \/ StructuredDisabled /\ sent.responses = 0
          \/ "responses" \in call.errors
          \/ call.last = "garbage"
    /\ call.last \in {"object", "empty"} => call.stage = "return"

C28_State ==
    /\ (ChatReached /\ ~StructuredDisabled) => sent.responses >= 1
    /\ call.stage = "chat" =>
          \/ StructuredDisabled /\ sent.responses = 0
          \/ "responses" \in call.errors
          \/ call.last \in {"garbage", "empty"}
    /\ call.last = "object" => call.stage = "return" /\ call.result.kind = "obj"

\* a call that has returned sends nothing more
C28_Step == call.stage = "return" => sent'.run = sent.run

\* C28: within one provider call the structured-output style, when enabled, is
\* attempted first; a conversational-completion request is sent only after
\* the structured-output style was disabled, was exhausted with an error, or
\* returned text with no parseable non-empty JSON object; once a style returns
\* a parsed object with at least one member no further request is sent.
C28_FallbackChainInOrder == []C28_State /\ [][C28_Step]_vars

\* a call about to send its chat request after /responses answered {}
C28_Witness ==
    /\ call.stage = "chat"
    /\ call.last = "empty"
    /\ sent.responses = 1
    /\ sent.chat = 0
    /\ call.errors = {}

---------------------------------------------------------------------------
(* C29: the retry loop of the /responses style *)

\* how far the reasoning hint of the body has been relaxed
EffortRank(effort) == CASE effort = "low" -> 0 [] effort = "medium" -> 1 [] OTHER -> 2

\* a /responses request was answered and the loop sends another one
RetrySent == call.stage = "responses" /\ call'.stage = "responses"

\* a /responses request was answered
ResponsesAnswered == call.stage = "responses" /\ sent'.responses = sent.responses + 1

C29_Step ==
    /\ RetrySent =>
          /\ call'.last = "status400"
          /\ call'.effort # call.effort
          /\ call'.attempt < 3
    /\ (ResponsesAnswered /\ call'.last # "status400") => call'.stage # "responses"
    /\ (call.purpose # "idle" /\ call'.purpose = call.purpose) =>
          EffortRank(call'.effort) >= EffortRank(call.effort)

\* C29: in the structured-output retry loop a retry is sent only after a 400
\* response led to a change of the request body, so no two consecutive
\* requests of one call carry the same body; the reasoning-effort hint only
\* moves forward along low -> medium -> absent and is never re-added or
\* lowered; every non-400 response ends the loop at once.
C29_RetryOnlyAfterChange == [][C29_Step]_vars

\* the third request of a call, sent without the hint after two 400s
C29_Witness ==
    /\ call.stage = "responses"
    /\ call.attempt = 2
    /\ sent.responses = 2
    /\ call.effort = "absent"
    /\ call.last = "status400"

---------------------------------------------------------------------------
(* C23: the scorer *)

\* the rule group a reason comes from, in the order of the rules
Group(tag) ==
    CASE tag \in {"earnings_soon", "earnings_week", "earnings_today"} -> 1
      [] tag = "volume"                       -> 2
      [] tag \in {"big_move", "move"}         -> 3
      [] tag \in {"overbought", "oversold"}   -> 4
      [] tag \in {"high_iv", "low_iv"}        -> 5
      [] tag = "affordable_options"           -> 6
      [] tag \in {"ai_strong", "ai_sentiment"} -> 7

\* the scorer has returned for the signal of the probe
ScorerReturned == probe.kind = "signal" /\ probe.stage \in {"scored", "idea"}

\* the pair is the one the scorer gives for the signal whenever it is asked,
\* and the groups of the reasons go strictly upwards
C23_OnePerGroupInOrder ==
    ScorerReturned =>
        LET reasons == probe.scored.reasons IN
        /\ probe.scored = score_opportunity(probe.signal)
        /\ \A j \in 1..Len(reasons) : \A k \in 1..Len(reasons) :
              j < k => Group(reasons[j]) < Group(reasons[k])

\* the signal handed to the scorer is the signal afterwards
C23_ReadOnly == probe'.signal = probe.signal

---------------------------------------------------------------------------
(* C24: the direction vote *)

\* the vote as the claim words it: RSI < 35 and RSI > 65 are votes of every
\* RSI value that is a number
VotedDirection(data) ==
    LET bull == (IF data.momentum_5d > 3 THEN 1 ELSE 0)
              + (IF data.trend = "bullish" THEN 1 ELSE 0)
              + (IF data.ai_sentiment.score > 0 THEN 1 ELSE 0)
              + (IF data.rsi # None /\ data.rsi < 35 THEN 1 ELSE 0)
        bear == (IF data.momentum_5d < -3 THEN 1 ELSE 0)
              + (IF data.trend = "bearish" THEN 1 ELSE 0)
              + (IF data.ai_sentiment.score < 0 THEN 1 ELSE 0)
              + (IF data.rsi # None /\ data.rsi > 65 THEN 1 ELSE 0)
    IN  IF bull > bear THEN "CALL" ELSE IF bear > bull THEN "PUT" ELSE "STRADDLE"

\* scenario A: momentum 12, RSI 28, volume surge 2.5, neutral trend, no
\* sentiment, no earnings, no options
ScenarioA(data) ==
    /\ data.momentum_5d = 12
    /\ data.rsi = 28
    /\ data.vol_surge = 25
    /\ data.trend = "neutral"
    /\ data.ai_sentiment = PendingSentiment

\* C24: generate_trade_idea returns CALL exactly when the bullish votes
\* (momentum > +3, trend bullish, sentiment score > 0, RSI < 35) outnumber the
\* bearish votes (momentum < -3, trend bearish, sentiment score < 0, RSI > 65),
\* PUT exactly when the bearish votes outnumber the bullish ones, STRADDLE on
\* every tie; the signal of scenario A scores at least 5.5 and gets CALL.
C24_DirectionByVotes ==
    (probe.kind = "signal" /\ probe.stage = "idea") =>
        /\ probe.direction = VotedDirection(probe.signal)
        /\ ScenarioA(probe.signal) => probe.scored.score >= 11 /\ probe.direction = "CALL"

---------------------------------------------------------------------------
(* C30: the gate of get_ai_sentiment *)

Forced == probe.force \/ probe.force_ai_all

\* C30: get_ai_sentiment sends no provider request unless an API key is set,
\* the headline list is non-empty and the call is forced (force=True or
\* force_ai_all true); with no key or no headlines it returns score 0 with
\* confidence "low", and when merely not forced score 0 with confidence
\* "skipped".
C30_SkipUnlessForced ==
    probe.kind = "gate" =>
        /\ (probe.stage = "asking" \/ sent.run > 0) =>
              env.key /\ probe.headlines > 0 /\ Forced
        /\ (probe.stage = "answered" /\ (~env.key \/ probe.headlines = 0)) =>
              probe.answer.score = 0 /\ probe.answer.confidence = "low"
        /\ (probe.stage = "answered" /\ env.key /\ probe.headlines > 0 /\ ~Forced) =>
              probe.answer.score = 0 /\ probe.answer.confidence = "skipped"

\* a call with a key and headlines that was not forced and was answered
\* "skipped" without a request
C30_Witness ==
    /\ probe.kind = "gate"
    /\ probe.stage = "answered"
    /\ env.key
    /\ probe.headlines > 0
    /\ ~Forced
    /\ probe.answer = SkippedSentiment
    /\ sent.run = 0

---------------------------------------------------------------------------
(* C26: the scanned universe *)

\* get_universe has returned the universe of a run
Loaded == refresh.op = "load" /\ ~refresh.raised

NoSymbolTwice(seq) == \A j \in 1..Len(seq) : \A k \in 1..Len(seq) : j # k => seq[j] # seq[k]

\* the curated symbols come first, in the order of the curated list
CuratedFirst(seq) ==
    \A j \in 1..Min(Len(seq), MaxCurated) : seq[j] = ROBINHOOD_POPULAR[j]

---------------------------------------------------------------------------
(* C27: the refresh of the universe cache *)

\* update_universe_from_alpaca has just returned
Refreshed == refresh'.op = "refresh"

\* the failures the claim names: no keys, broker unreachable, error status,
\* an answer that is no list of assets
FailedRefresh ==
    \/ ~refresh'.keys
    \/ refresh'.reply \in {"unreachable", "error_status", "not_json", "not_assets",
                            "empty_object"}

\* the written list: the curated symbols and at most MaxAdditions broker symbols
CuratedPlusAdditions(doc) ==
    /\ doc.kind = "doc"
    /\ Range(SubSeq(doc.tickers, 1, MaxCurated)) = Range(ROBINHOOD_POPULAR)
    /\ Len(doc.tickers) <= MaxCurated + MaxAdditions
    /\ \A j \in (MaxCurated + 1)..Len(doc.tickers) : doc.tickers[j] \in BrokerSymbols

\* C27: when update_universe_from_alpaca fails (missing keys, broker API
\* unreachable, error status or malformed answer) it returns without raising
\* and the universe cache document is exactly what it was before the call;
\* when it succeeds, the written ticker list is the curated list plus at most
\* 200 additional broker symbols.
C27_FailedRefreshKeepsCache ==
    [][ Refreshed =>
          /\ ~refresh'.raised
          /\ FailedRefresh => cache' = cache
          /\ (~FailedRefresh /\ refresh'.io = "ok") => CuratedPlusAdditions(cache') ]_vars

---------------------------------------------------------------------------
(* C31: timestamps in the journal (specification SpecJournal) *)

NoTimestampTwice(entries) ==
    \A i \in 1..Len(entries) : \A j \in 1..Len(entries) :
        i # j => entries[i].created_at # entries[j].created_at

\* the claim as written: whatever the order of the timestamps of the calls,
\* no two entries of the journal share a created_at
C31_NoDuplicateTimestamps == NoTimestampTwice(journal)

\* C31: after any sequence of append_research_journal calls starting from an
\* empty journal in which no call carries a timestamp older than an earlier
\* call's, the journal never contains two entries with the same created_at
\* (only the head entry is compared with the new one, so a timestamp that
\* recurs after a different one is appended a second time).
C31_NoDuplicatesInTimestampOrder == lastCall.monotone => NoTimestampTwice(journal)

\* calls in timestamp order, the last one a repeat of its predecessor's
\* timestamp, have left three entries with three timestamps
C31_Witness ==
    /\ lastCall.monotone
    /\ lastCall.repeat
    /\ Len(journal) = 3
    /\ NoTimestampTwice(journal)

---------------------------------------------------------------------------
(* C32: what one call does to the entries it finds (SpecJournalFile) *)

\* append_research_journal was called in this step
JournalCalled == lastCall'.tick # lastCall.tick

\* the entries the call found, without the head it replaces
Retainable ==
    IF journal # << >> /\ journal[1].created_at = lastCall'.at THEN Tail(journal) ELSE journal

\* C32: the journal is append-only with respect to retained history: one
\* append_research_journal call changes the entries it finds only by
\* replacing the head entry (when its created_at equals the new entry's) and
\* by dropping entries from the old end, none of them within a maximum of at
\* least 1; every other entry is kept unchanged, in the same order, for every
\* list the journal file held before (a call that raises writes nothing).
C32_HistoryRetained ==
    [][ JournalCalled =>
          \/ MergeRaises(journal) /\ journal' = journal
          \/ /\ ~MergeRaises(journal)
             /\ journal' = << >> \/ journal'[1].created_at = lastCall'.at
             /\ \E k \in 0..Len(Retainable) :
                   /\ journal' # << >> => Tail(journal') = SubSeq(Retainable, 1, k)
                   /\ max_entries >= 1 => k = Min(Len(Retainable), max_entries - 1) ]_vars

\* a call under a maximum of 2 found two elements, dropped the older one and
\* kept the former head, an object without created_at, behind the new entry
C32_Witness ==
    /\ lastCall.at # 0
    /\ lastCall.cut
    /\ max_entries = 2
    /\ Len(journal) = 2
    /\ journal[1].created_at = lastCall.at
    /\ journal[2].created_at = None


---------------------------------------------------------------------------
(* The report of a long scan: a universe of more tickers than the report's
   caps, taken up when every batch but the last was consumed *)

\* tickers of the universe of this scan
MaxRows == 16

\* the index at which the last batch starts
LastBatchStart == batch_size * ((MaxRows - 1) \div batch_size)

\* as_completed hands the futures of a batch over in the order they complete:
\* the batches consumed so far were consumed in submission order or, batch by
\* batch, in the reverse of it
ConsumedOrders ==
    { [j \in 1..LastBatchStart |-> j],
      [j \in 1..LastBatchStart |->
          batch_size * ((j - 1) \div batch_size) + batch_size - ((j - 1) % batch_size)] }

\* the results the loop body has appended for the tickers consumed in this order
RowsOf(order) ==
    LET kept == SelectSeq(order, LAMBDA t : Accepted(get_stock_data(t, FALSE)))
    IN  [j \in 1..Len(kept) |-> Scored(get_stock_data(kept[j], FALSE))]

ReportInit ==
    /\ pc = "scan"
    /\ exc = ""
    /\ universe = [j \in 1..MaxRows |-> j]
    /\ batchStart = LastBatchStart
    /\ status = [t \in 1..MaxRows |-> IF t <= LastBatchStart THEN "consumed" ELSE "waiting"]
    /\ future = [t \in 1..MaxRows |-> NoData]
    /\ \E order \in ConsumedOrders : results = RowsOf(order)
    /\ env = EnvUnread
    /\ cursor = 0
    /\ call = IdleCall
    /\ sent = [responses |-> 0, chat |-> 0, run |-> 0, enriched |-> 0, narrated |-> 0]
    /\ output = NoOutput
    /\ reportFile = NoFile
    /\ journal = << >>
    /\ clock = 1
    /\ scorerCalls = [t \in 1..MaxRows |->
                         IF t <= LastBatchStart /\ get_stock_data(t, FALSE) # NoData
                         THEN 1 ELSE 0]
    /\ log = {}
    /\ InitOther

SpecReport == ReportInit /\ [][Next]_vars

---------------------------------------------------------------------------
(* C33 *)

SortedByScore(rs) == \A j \in 1..(Len(rs) - 1) : rs[j].score >= rs[j + 1].score

RECURSIVE IsSubList(_, _)
\* sub is what is left of rs when some of its entries are struck out
IsSubList(sub, rs) ==
    IF sub = << >> THEN TRUE
    ELSE IF rs = << >> THEN FALSE
    ELSE IF Head(sub) = Head(rs) THEN IsSubList(Tail(sub), Tail(rs))
    ELSE IsSubList(sub, Tail(rs))

ReportCategories == { output.earnings_plays, output.momentum_plays, output.oversold_plays }

ReportAssembled == pc \in {"journal", "done"} \/ (pc = "raised" /\ exc = "OSError")

\* C33: in every report all_results and top_picks are sorted by score in
\* non-increasing order, top_picks is the first 10 entries of all_results,
\* each of the three category lists is an order-preserving sub-list of
\* all_results with at most 5 entries, and every entry of all_results has a
\* score of at least min_score.
C33_ReportOrderedAndCapped ==
    ReportAssembled =>
        /\ SortedByScore(output.all_results)
        /\ SortedByScore(output.top_picks)
        /\ output.top_picks =
              SubSeq(output.all_results, 1, Min(10, Len(output.all_results)))
        /\ \A cat \in ReportCategories :
              /\ Len(cat) <= 5
              /\ IsSubList(cat, output.all_results)
        /\ \A j \in 1..Len(output.all_results) : output.all_results[j].score >= MIN_SCORE

\* a report of more than 10 results, re-sorted after an enrichment that
\* raised a score, with a category that was cut to 5
C33_Witness ==
    /\ pc = "done"
    /\ sent.enriched > 0
    /\ Len(output.all_results) > 10
    /\ Len(output.top_picks) = 10
    /\ Len(MomentumPlays(output.all_results)) > 5
    /\ Len(output.momentum_plays) = 5
    /\ \E j \in 1..Len(output.all_results) :
          /\ Enriched(output.all_results[j])
          /\ output.all_results[j].score > ScanScore(output.all_results[j].ticker)


---------------------------------------------------------------------------
(* A run that follows earlier runs: the report file and the journal hold
   what those runs left, and the run is taken up when its scan is over *)

\* the timestamps of a set of earlier runs, newest first
Descending(S) ==
    CHOOSE seq \in [1..Cardinality(S) -> S] :
        \A j \in 1..(Cardinality(S) - 1) : seq[j] > seq[j + 1]

\* the journal the runs before now have left
EarlierJournals(now) ==
    { [j \in 1..Cardinality(S) |-> PriorEntry(Descending(S)[j])] : S \in SUBSET (1..now) }

\* the report file the runs before now have left: none, or the report of the
\* latest of them, whole or cut short by a failing dump
EarlierReports(now, entries) ==
    (IF entries = << >> THEN { NoFile } ELSE {})
    \cup { [state |-> st, generated_at |-> u] :
             st \in {"complete", "partial"},
             u \in { v \in 1..now : entries # << >> => v >= entries[1].created_at } }

\* the results of a scan in which only the fetches of tickers 6 and 1 came
\* back, in this order, or none did
ScanResults == { << >>, RowsOf(<< 6, 1 >>) }

RunsInit ==
    /\ pc = "scan"
    /\ exc = ""
    /\ universe = get_universe(NoCache, MaxTickers)
    /\ batchStart = batch_size * ((MaxTickers + batch_size - 1) \div batch_size)
    /\ status = [t \in 1..MaxTickers |-> "consumed"]
    /\ future = [t \in 1..MaxTickers |-> NoData]
    /\ results \in ScanResults
    /\ env = EnvUnread
    /\ cursor = 0
    /\ call = IdleCall
    /\ sent = [responses |-> 0, chat |-> 0, run |-> 0, enriched |-> 0, narrated |-> 0]
    /\ output = NoOutput
    /\ clock \in 1..MaxTime
    /\ journal \in EarlierJournals(clock)
    /\ reportFile \in EarlierReports(clock, journal)
    /\ scorerCalls = [t \in 1..MaxTickers |->
                         IF t \in Range(TickerSeq(results)) THEN 1 ELSE 0]
    /\ log = {}
    /\ lastCall = NoCall
    /\ max_entries \in {-1, 0, 1, DEFAULT_MAX_ENTRIES}
    /\ disk = [f \in Files |-> NoContent]
    /\ wr = NoWrite
    /\ probe = NoProbe
    /\ cache = NoCache
    /\ refresh = NoRefresh

RunsNext ==
    \/ SortResults
    \/ EnrichSkip
    \/ EnrichCall
    \/ ResponsesRequest
    \/ ChatRequest
    \/ EnrichApply
    \/ EnrichEnd
    \/ WriteReport
    \/ JournalNarrative
    \/ JournalWrite

SpecRuns == RunsInit /\ [][RunsNext]_vars

---------------------------------------------------------------------------
(* C34 *)

\* the places of the new journal whose entry the old journal did not hold
Fresh == { j \in 1..Len(journal') : journal'[j] \notin Range(journal) }

\* the report of this run is on disk
ReportWritten ==
    /\ reportFile.state = "complete"
    /\ reportFile.generated_at = output.generated_at
    /\ output.generated_at = clock

C34_Step ==
    /\ journal' # journal =>
          /\ pc = "journal" /\ pc' = "done"
          /\ ReportWritten
          /\ reportFile' = reportFile
          /\ Cardinality(Fresh) <= 1
          /\ \A j \in Fresh : j = 1 /\ journal'[j].created_at = reportFile.generated_at
          /\ Range(journal') \subseteq
                Range(journal) \cup { e \in Range(journal') : e.created_at = reportFile.generated_at }
    /\ pc = "done" => pc' = "done"

\* C34: the journal changes only in the step that follows the complete write
\* of this run's report, that step is the last of the run, it adds or replaces
\* at most one entry, at the head, and the entry's created_at is the
\* generated_at of the report on disk: no entry for a timestamp is in the
\* journal before the report for that timestamp was written.
C34_ReportBeforeJournal == [][C34_Step]_vars

\* a run after earlier runs has written its report over a stale one and then
\* put its entry before the entries of the earlier runs
C34_Witness ==
    /\ pc = "done"
    /\ clock = 3
    /\ reportFile = [state |-> "complete", generated_at |-> 3]
    /\ Len(journal) = 3
    /\ journal[1].created_at = 3
    /\ journal[1].summary.passed = 2
    /\ journal[2].created_at = 2
    /\ journal[3].created_at = 1
    /\ "Journal update error" \notin log

=============================================================================
